---- MODULE Spec2Model ----
(***************************************************************************)
(* Store-and-forward SMTP relay: the ingress handler (smtp_proxy.py), the  *)
(* two queue backends (queue_manager.py: Redis lists, SQLite table), the   *)
(* retry manager and the forwarding worker (email_sender.py), and the      *)
(* message model (models.py).                                              *)
(***************************************************************************)
EXTENDS Integers, Sequences, FiniteSets, TLC

\* ---------------------------------------------------------------- bounds
MaxMsgs == 2
MaxRetriesBound == 1
MaxClock == 1
MaxList == 3
MaxCrashes == 1
MaxCapacity == 2
MaxGrants == 3
Horizon == 3
MaxInstances == 8

\* ------------------------------------------------------------- constants
Ids == 1..MaxMsgs
WorkerIds == {"w1", "w2"}
Backends == {"redis", "sqlite"}
FromAddrs == {"", "a@x"}
RcptLists == {<< >>, <<"b@y">>}
BodySizes == {1, 2}

\* smtp.max_message_size, a configuration value (bytes)
max_message_size == 1

\* config.rate_limit.retry_delay (seconds), the default
retry_delay == 60

VARIABLES
    backend,      \* config.queue.backend
    max_retries,  \* config.rate_limit.max_retries
    up,           \* the queue store is reachable
    phase,        \* "up": the process runs; "down": it was killed
    clock,        \* time.time()
    next_id,      \* the id the next EmailMessageData gets
    queue,        \* Redis list smtp_queue (index 1 is the left end)
    processing,   \* Redis list smtp_processing
    table,        \* SQLite table smtp_queue: id -> row
    pc,           \* each worker's position in EmailWorker.start
    msg,          \* each worker's local message object
    result,       \* each worker's SendingResult.success ("none", "ok", "fail")
    fails,        \* send_with_retry: send_email calls that failed, this call
    slept,        \* send_with_retry: seconds passed to asyncio.sleep, this call
    last_resp,    \* the ingress' answer to the latest DATA
    enq_ok,       \* history: what enqueue returned to the ingress for id
    delivered,    \* history: ids the upstream accepted
    settled,      \* history: status of the last mark_completed that took effect
    orphans,      \* history: ids that were in flight when the process was killed
    fresh,        \* history: no dequeue has moved an entry since process start
    crashes,      \* history: number of kills
    first_deq,    \* history: ids in the order of their first dequeue
    first_send,   \* history: ids in the order of their first upstream send
    auth_required,  \* config.proxy.auth_required
    valid_users,    \* SMTPAuthHandler.valid_users: (username, password) pairs
    authenticated,  \* session['authenticated']
    auth_resp,      \* the answer to the session's latest AUTH
    mail_resp,      \* the answer to the session's latest MAIL
    supplied,       \* history: the credentials the latest AUTH supplied
    limiters,     \* CompositeRateLimiter.limiters
    capacity,     \* max_tokens / requests_per_window / bucket_capacity
    level,        \* tokens / request_count / current_volume of each limiter
    passed,       \* ticks since last_refill_time / window_start / last_leak_time
    holder,       \* each limiter's lock: the caller that owns it
    waiters,      \* each limiter's lock: the callers waiting for it, in order
    lpc,          \* each caller's position in acquire
    at,           \* each caller's index in CompositeRateLimiter.limiters
    remaining,    \* each caller's asyncio.sleep: ticks until it may return
    taken,        \* history: permits the caller took in its current acquire
    grants,       \* history: ages of the recent grants, oldest first
    since_grant,  \* history: ticks since the latest grant
    since_send,   \* history: ticks since the latest upstream send
    lag,          \* history: ticks from its grant to the latest upstream send
    is_running,   \* EmailWorker.is_running
    smtp_client,  \* EmailSender.smtp_client: "none" or "client"
    link,         \* the connection of smtp_client: none, connected, broken, closed
    found_broken, \* history: a call on the current smtp_client met a transport error
    global_rate_limiter,  \* _global_rate_limiter: 0 is None, else the instance
    instances,    \* CompositeRateLimiter objects created so far
    got,          \* what the latest get_rate_limiter returned to each caller
    since_close   \* history: the callers of get_rate_limiter since the latest close

store == <<queue, processing, table>>
cfg == <<backend, max_retries>>
wstate == <<pc, msg, result, fails, slept>>
ingress == <<next_id, last_resp, enq_ok>>
hist == <<delivered, settled, orphans, fresh, crashes, first_deq, first_send>>
sess == <<auth_required, valid_users, authenticated, auth_resp, mail_resp,
          supplied>>
lim == <<limiters, capacity, level, passed, holder, waiters, lpc, at,
         remaining, taken, grants, since_grant>>
obs == <<since_send, lag>>
sender == <<is_running, smtp_client, link, found_broken>>
glob == <<global_rate_limiter, instances, got, since_close>>
vars == <<backend, max_retries, up, phase, clock, next_id, queue, processing,
          table, pc, msg, result, fails, slept, last_resp, enq_ok, delivered,
          settled, orphans, fresh, crashes, first_deq, first_send,
          auth_required, valid_users, authenticated, auth_resp, mail_resp,
          supplied, limiters, capacity, level, passed, holder, waiters, lpc, at,
          remaining, taken, grants, since_grant, since_send, lag,
          is_running, smtp_client, link, found_broken,
          global_rate_limiter, instances, got, since_close>>

\* ------------------------------------------------------- message model
\* the fields of EmailMessageData; message_body is kept as its size in bytes,
\* message_headers as the dict of the headers parsed from the content
NoMsg ==
    [id |-> 0, from_addr |-> "", to_addrs |-> << >>,
     message_headers |-> [From |-> ""], message_body |-> 0, created_at |-> 0, retry_count |-> 0,
     last_retry_at |-> 0, status |-> "none"]

\* EmailMessageData(...) as built by from_smtp_message: fresh id, the envelope's
\* sender and recipients, the headers and the body of the content, created_at
\* from time.time(), retry_count 0, last_retry_at 0, status pending
NewMessage(id, now, from_addr, to_addrs, size) ==
    [id |-> id, from_addr |-> from_addr, to_addrs |-> to_addrs,
     message_headers |-> [From |-> from_addr], message_body |-> size,
     created_at |-> now, retry_count |-> 0, last_retry_at |-> 0,
     status |-> "pending"]

\* a to_dict that leaves retry_count out (from_dict then takes its default, 0)
to_dict_without_retry_count(m) ==
    [id |-> m.id, from_addr |-> m.from_addr, to_addrs |-> m.to_addrs,
     message_headers |-> m.message_headers, message_body |-> m.message_body,
     created_at |-> m.created_at, retry_count |-> 0,
     last_retry_at |-> m.last_retry_at, status |-> m.status]

to_dict(m) ==
    [id |-> m.id, from_addr |-> m.from_addr, to_addrs |-> m.to_addrs,
     message_headers |-> m.message_headers, message_body |-> m.message_body,
     created_at |-> m.created_at, retry_count |-> m.retry_count,
     last_retry_at |-> m.last_retry_at, status |-> m.status]

\* data.get(key, default)
Get(d, key, default) == IF key \in DOMAIN d THEN d[key] ELSE default

\* the defaults of id and created_at (a new uuid, time.time()) are not modelled:
\* every dict the program passes has both keys
from_dict(d) ==
    [id |-> d.id,
     from_addr |-> Get(d, "from_addr", ""),
     to_addrs |-> Get(d, "to_addrs", << >>),
     message_headers |-> Get(d, "message_headers", << >>),
     message_body |-> Get(d, "message_body", 0),
     created_at |-> d.created_at,
     retry_count |-> Get(d, "retry_count", 0),
     last_retry_at |-> Get(d, "last_retry_at", 0),
     status |-> Get(d, "status", "pending")]

\* json.dumps / json.loads of a value made of strings, numbers, lists and dicts
\* with string keys: the text, and the value read back from it
json_dumps(v) == <<"json", v>>
json_loads(text) == text[2]

\* a can_retry that allows one retry more
can_retry_inclusive(m, limit) == m.retry_count <= limit

\* retry_count < max_retries
can_retry(m, limit) == m.retry_count < limit

\* retry_count += 1; last_retry_at = time.time()
increment_retry(m, now) ==
    [m EXCEPT !.retry_count = @ + 1, !.last_retry_at = now]

\* exponential backoff: base_delay * (2 ** retry_count)
get_retry_delay(m, base_delay) == base_delay * (2 ^ m.retry_count)

\* ------------------------------------------------------- Redis backend
\* the ids of the items of a list: json.loads(item)['id']
SeqIds(s) == {json_loads(s[i]).id : i \in 1..Len(s)}

\* LPUSH smtp_queue json.dumps(message.to_dict())
RedisEnqueue(q, m) == <<json_dumps(to_dict(m))>> \o q

\* RPOPLPUSH smtp_queue smtp_processing: the popped item read by json.loads,
\* and both lists after
RedisPopped(q) == json_loads(q[Len(q)])
RedisQueueAfterPop(q) == SubSeq(q, 1, Len(q) - 1)
RedisProcessingAfterPop(q, p) == <<q[Len(q)]>> \o p

\* a mark_completed that removes every item of the id (LREM count 0, no break)
RedisMarkCompletedAll(p, id) ==
    SelectSeq(p, LAMBDA item : json_loads(item).id # id)

\* LRANGE, scan for the first item with this id, LREM count 1
RedisMarkCompleted(p, id) ==
    IF id \in SeqIds(p)
    THEN LET k == CHOOSE i \in 1..Len(p) :
                      /\ json_loads(p[i]).id = id
                      /\ \A j \in 1..(i - 1) : json_loads(p[j]).id # id
             first == CHOOSE i \in 1..Len(p) :
                      /\ p[i] = p[k]
                      /\ \A j \in 1..(i - 1) : p[j] # p[k]
         IN  SubSeq(p, 1, first - 1) \o SubSeq(p, first + 1, Len(p))
    ELSE p

\* ------------------------------------------------------ SQLite backend
\* INSERT INTO smtp_queue (...): id is the PRIMARY KEY, processing DEFAULT 0
SQLiteInsertOk(t, m) == m.id \notin DOMAIN t

\* an enqueue by INSERT OR REPLACE: the row of a present id is written anew
SQLiteInsertOrReplace(t, m) ==
    [i \in DOMAIN t \cup {m.id} |->
        IF i = m.id
        THEN [from_addr |-> to_dict(m).from_addr,
              to_addrs |-> json_dumps(to_dict(m).to_addrs),
              message_headers |-> json_dumps(to_dict(m).message_headers),
              message_body |-> to_dict(m).message_body,
              created_at |-> to_dict(m).created_at,
              retry_count |-> to_dict(m).retry_count,
              last_retry_at |-> to_dict(m).last_retry_at,
              status |-> to_dict(m).status,
              processing |-> 0]
        ELSE t[i]]

SQLiteEnqueue(t, m) ==
    IF SQLiteInsertOk(t, m)
    THEN t @@ (m.id :> [from_addr |-> to_dict(m).from_addr,
                        to_addrs |-> json_dumps(to_dict(m).to_addrs),
                        message_headers |-> json_dumps(to_dict(m).message_headers),
                        message_body |-> to_dict(m).message_body,
                        created_at |-> to_dict(m).created_at,
                        retry_count |-> to_dict(m).retry_count,
                        last_retry_at |-> to_dict(m).last_retry_at,
                        status |-> to_dict(m).status,
                        processing |-> 0])
    ELSE t

\* SELECT * WHERE processing = 0 AND status = 'pending'
SQLitePending(t) ==
    {i \in DOMAIN t : t[i].processing = 0 /\ t[i].status = "pending"}

\* ... ORDER BY created_at ASC LIMIT 1: any row with the least created_at
SQLiteSelect(t) ==
    {i \in SQLitePending(t) :
        \A j \in SQLitePending(t) : t[i].created_at <= t[j].created_at}

SQLiteRowMessage(t, i) ==
    from_dict([id |-> i,
               from_addr |-> t[i].from_addr,
               to_addrs |-> json_loads(t[i].to_addrs),
               message_headers |-> json_loads(t[i].message_headers),
               message_body |-> t[i].message_body,
               created_at |-> t[i].created_at,
               retry_count |-> t[i].retry_count,
               last_retry_at |-> t[i].last_retry_at,
               status |-> t[i].status])

\* UPDATE smtp_queue SET processing = 1 WHERE id = ?
SQLiteMarkProcessing(t, i) ==
    IF i \in DOMAIN t THEN [t EXCEPT ![i].processing = 1] ELSE t

\* UPDATE smtp_queue SET status = ?, processing = 0 WHERE id = ?
SQLiteMarkCompleted(t, i, st) ==
    IF i \in DOMAIN t
    THEN [t EXCEPT ![i].status = st, ![i].processing = 0]
    ELSE t

\* ------------------------------------------------ the queue, abstractly
ReadyIds ==
    IF backend = "redis" THEN SeqIds(queue) ELSE SQLitePending(table)

InFlightIds ==
    IF backend = "redis" THEN SeqIds(processing)
    ELSE {i \in DOMAIN table : table[i].processing = 1}

\* positional parameters of the backend's mark_completed, after self
MarkCompletedParams == IF backend = "redis" THEN 1 ELSE 2

\* a call with n positional arguments raises TypeError when the method takes fewer
CallRaises(n) == n > MarkCompletedParams


\* QueueManager.enqueue as the callers see it: the exception of a failed
\* LPUSH / INSERT is caught inside and False is returned
EnqueueReturns(m) ==
    /\ up
    /\ backend = "sqlite" => SQLiteInsertOk(table, m)

QueueAfterEnqueue(m) ==
    IF up /\ backend = "redis" THEN RedisEnqueue(queue, m) ELSE queue

TableAfterEnqueue(m) ==
    IF up /\ backend = "sqlite" THEN SQLiteEnqueue(table, m) ELSE table

\* the lists of the model are bounded
EnqueueFits == (up /\ backend = "redis") => Len(queue) < MaxList

\* ------------------------------------------------------------- ingress
\* SMTPProxyHandler._validate_message
ValidateMessage(from_addr, to_addrs, size) ==
    /\ from_addr # ""
    /\ to_addrs # << >>
    /\ ~(size > max_message_size)

\* a handle_DATA that enqueues the message before it validates it
HandleDATAEnqueueFirst(from_addr, to_addrs, size) ==
    /\ phase = "up"
    /\ next_id <= MaxMsgs
    /\ EnqueueFits
    /\ LET m == NewMessage(next_id, clock, from_addr, to_addrs, size) IN
       /\ queue' = QueueAfterEnqueue(m)
       /\ table' = TableAfterEnqueue(m)
       /\ enq_ok' = [enq_ok EXCEPT ![m.id] = EnqueueReturns(m)]
       /\ last_resp' = IF ValidateMessage(from_addr, to_addrs, size)
                       THEN "250" ELSE "550"
       /\ next_id' = next_id + 1
       /\ UNCHANGED processing
    /\ UNCHANGED <<cfg, sender, glob, sess, lim, obs, up, phase, clock, wstate, hist>>

\* SMTPProxyHandler.handle_DATA: build the message, validate, enqueue (the
\* value enqueue returns is not looked at), answer
HandleDATA(from_addr, to_addrs, size) ==
    /\ phase = "up"
    /\ next_id <= MaxMsgs
    /\ LET m == NewMessage(next_id, clock, from_addr, to_addrs, size) IN
       IF ~ValidateMessage(from_addr, to_addrs, size)
       THEN /\ last_resp' = "550"
            /\ UNCHANGED <<store, enq_ok, next_id>>
       ELSE /\ EnqueueFits
            /\ queue' = QueueAfterEnqueue(m)
            /\ table' = TableAfterEnqueue(m)
            /\ enq_ok' = [enq_ok EXCEPT ![m.id] = EnqueueReturns(m)]
            /\ last_resp' = "250"
            /\ next_id' = next_id + 1
            /\ UNCHANGED processing
    /\ UNCHANGED <<cfg, sender, glob, sess, lim, obs, up, phase, clock, wstate, hist>>

\* time.time() read at a later instant
Tick ==
    /\ clock < MaxClock
    /\ clock' = clock + 1
    /\ UNCHANGED <<cfg, sender, glob, sess, lim, obs, up, phase, store, wstate, ingress, hist>>

\* ------------------------------------------------- the SMTP session
\* config.proxy.auth_username / auth_password, as configured
ConfiguredUser == <<"u", "p">>

\* what a client may send with AUTH: the word after AUTH ("" when there is
\* none), and the credentials it encodes
Mechanisms == {"", "LOGIN", "PLAIN", "MECHANISM", "CRAM-MD5"}
Credentials == {<<"u", "p">>, <<"u", "x">>, <<"v", "p">>}

\* the auth_* methods getattr finds on SMTPAuthHandler
AuthMethods == {"MECHANISM", "LOGIN", "PLAIN"}

\* SMTPAuthHandler._authenticate, reached with auth_required true: the args are
\* decoded and not looked at; the configured pair is looked up in valid_users
Authenticate(args) ==
    /\ valid_users # {}
    /\ \E u \in valid_users : u[1] = ConfiguredUser[1] /\ u[2] = ConfiguredUser[2]

\* a client connects: a fresh session
NewSession ==
    /\ phase = "up"
    /\ authenticated' = FALSE
    /\ auth_resp' = "none"
    /\ mail_resp' = "none"
    /\ supplied' = << >>
    /\ UNCHANGED <<auth_required, valid_users>>
    /\ UNCHANGED <<cfg, sender, glob, lim, obs, up, phase, clock, store, wstate, ingress, hist>>

\* EnhancedSMTPProxyHandler.handle_AUTH
HandleAUTH(mechanism, args) ==
    /\ phase = "up"
    /\ supplied' = args
    /\ IF ~auth_required
       THEN auth_resp' = "530" /\ UNCHANGED authenticated
       ELSE IF mechanism = ""
       THEN auth_resp' = "501" /\ UNCHANGED authenticated
       ELSE IF mechanism \notin AuthMethods
       THEN auth_resp' = "504" /\ UNCHANGED authenticated
       ELSE IF mechanism = "MECHANISM"
       THEN \* auth_MECHANISM takes (server, session, mechanism, args): TypeError
            auth_resp' = "451" /\ UNCHANGED authenticated
       ELSE IF Authenticate(args)
       THEN auth_resp' = "235" /\ authenticated' = TRUE
       ELSE auth_resp' = "535" /\ UNCHANGED authenticated
    /\ UNCHANGED <<auth_required, valid_users, mail_resp>>
    /\ UNCHANGED <<cfg, sender, glob, lim, obs, up, phase, clock, store, wstate, ingress, hist>>

\* EnhancedSMTPProxyHandler.handle_MAIL: 530, or super().handle_MAIL, which no
\* base class defines: AttributeError, caught, 451
HandleMAIL ==
    /\ phase = "up"
    /\ IF auth_required /\ ~authenticated
       THEN mail_resp' = "530"
       ELSE mail_resp' = "451"
    /\ UNCHANGED <<auth_required, valid_users, authenticated, auth_resp, supplied>>
    /\ UNCHANGED <<cfg, sender, glob, lim, obs, up, phase, clock, store, wstate, ingress, hist>>

\* -------------------------------------------------------- rate limiters
Kinds == {"token_bucket", "fixed_window", "leaky_bucket"}

\* one token / one unit of volume, counted in halves: tokens and current_volume
\* are reals in the code, the model keeps them as whole numbers of halves
One == 2

\* config.rate_limit.tokens_per_second and leak_rate: halves per tick
tokens_per_second == 1
leak_rate == 1

\* config.rate_limit.window_seconds: ticks
window_seconds == 2

CeilDiv(a, b) == (a + b - 1) \div b
Min(a, b) == IF a <= b THEN a ELSE b
Max(a, b) == IF a >= b THEN a ELSE b

\* the limiter the caller is in
LimiterOf(c) == limiters[at[c]]

\* now - last_refill_time (window_start, last_leak_time) matters only up to here
PassedCap(k) ==
    IF k = "token_bucket" THEN CeilDiv(capacity[k] * One, tokens_per_second)
    ELSE IF k = "fixed_window" THEN window_seconds
    ELSE CeilDiv((capacity[k] + 1) * One, leak_rate)

\* __init__ of each limiter: tokens = max_tokens, request_count = 0,
\* current_volume = 0
InitialLevel(k, n) == IF k = "token_bucket" THEN n * One ELSE 0

\* a _refill_tokens that adds the tokens and does not clamp them to max_tokens
RefilledTokensUnclamped ==
    level["token_bucket"] + passed["token_bucket"] * tokens_per_second

\* TokenBucketRateLimiter._refill_tokens: the tokens after it
RefilledTokens ==
    LET tokens_to_add == passed["token_bucket"] * tokens_per_second IN
    IF tokens_to_add > 0
    THEN Min(capacity["token_bucket"] * One, level["token_bucket"] + tokens_to_add)
    ELSE level["token_bucket"]

\* LeakyBucketRateLimiter._leak_bucket: the volume after it
LeakedVolume ==
    LET leaked_amount == passed["leaky_bucket"] * leak_rate IN
    IF leaked_amount > 0
    THEN Max(0, level["leaky_bucket"] - leaked_amount)
    ELSE level["leaky_bucket"]

\* asyncio.Lock.acquire, entered by `async with self.lock`: taken at once when
\* the lock is free and nobody waits, else the caller queues
LockAcquire(c) ==
    /\ lpc[c] = "lock"
    /\ LET k == LimiterOf(c) IN
       IF holder[k] = "none" /\ waiters[k] = << >>
       THEN /\ holder' = [holder EXCEPT ![k] = c]
            /\ lpc' = [lpc EXCEPT ![c] = "run"]
            /\ UNCHANGED waiters
       ELSE /\ waiters' = [waiters EXCEPT ![k] = Append(@, c)]
            /\ lpc' = [lpc EXCEPT ![c] = "blocked"]
            /\ UNCHANGED holder
    /\ UNCHANGED <<limiters, capacity, level, passed, at, remaining, taken,
                   grants, since_grant>>

\* a release of the lock that wakes no waiter
GrantedNobodyWoken(c) ==
    LET k == LimiterOf(c) IN
    /\ holder' = [holder EXCEPT ![k] = "none"]
    /\ UNCHANGED waiters
    /\ lpc' = [lpc EXCEPT ![c] = IF at[c] < Len(limiters) THEN "lock" ELSE "done"]
    /\ at' = [at EXCEPT ![c] = IF at[c] < Len(limiters) THEN @ + 1 ELSE @]
    /\ taken' = [taken EXCEPT ![c] = @ + 1]
    /\ grants' = IF Len(grants) < MaxGrants THEN Append(grants, 0)
                 ELSE Append(Tail(grants), 0)
    /\ since_grant' = 0

\* a composite acquire that returns after the permit of its first limiter
GrantedReturnsAtOnce(c) ==
    LET k == LimiterOf(c) IN
    /\ IF waiters[k] = << >>
       THEN /\ holder' = [holder EXCEPT ![k] = "none"]
            /\ UNCHANGED waiters
       ELSE /\ holder' = [holder EXCEPT ![k] = Head(waiters[k])]
            /\ waiters' = [waiters EXCEPT ![k] = Tail(@)]
    /\ lpc' = [x \in WorkerIds |->
                 IF x = c THEN "done"
                 ELSE IF waiters[k] # << >> /\ x = Head(waiters[k]) THEN "run"
                 ELSE lpc[x]]
    /\ UNCHANGED at
    /\ taken' = [taken EXCEPT ![c] = @ + 1]
    /\ grants' = IF Len(grants) < MaxGrants THEN Append(grants, 0)
                 ELSE Append(Tail(grants), 0)
    /\ since_grant' = 0

\* leaving `async with self.lock` with a permit: the lock goes to the first
\* waiter, the caller goes on to the next limiter of the list or returns
Granted(c) ==
    LET k == LimiterOf(c) IN
    /\ IF waiters[k] = << >>
       THEN /\ holder' = [holder EXCEPT ![k] = "none"]
            /\ UNCHANGED waiters
       ELSE /\ holder' = [holder EXCEPT ![k] = Head(waiters[k])]
            /\ waiters' = [waiters EXCEPT ![k] = Tail(@)]
    /\ lpc' = [x \in WorkerIds |->
                 IF x = c
                 THEN (IF at[c] < Len(limiters) THEN "lock" ELSE "done")
                 ELSE IF waiters[k] # << >> /\ x = Head(waiters[k]) THEN "run"
                 ELSE lpc[x]]
    /\ at' = [at EXCEPT ![c] = IF at[c] < Len(limiters) THEN @ + 1 ELSE @]
    /\ taken' = [taken EXCEPT ![c] = @ + 1]
    /\ grants' = IF Len(grants) < MaxGrants THEN Append(grants, 0)
                 ELSE Append(Tail(grants), 0)
    /\ since_grant' = 0

\* await asyncio.sleep(wait_time), with the lock still held
Sleep(c, wait_time) ==
    /\ lpc' = [lpc EXCEPT ![c] = "sleep"]
    /\ remaining' = [remaining EXCEPT ![c] = wait_time]
    /\ UNCHANGED <<holder, waiters, at, taken, grants, since_grant>>

\* TokenBucketRateLimiter.acquire, one turn of its loop under the lock
TokenBucketRun(c) ==
    /\ lpc[c] = "run"
    /\ LimiterOf(c) = "token_bucket"
    /\ LET k == "token_bucket"
           tokens == RefilledTokens
           refilled == passed[k] * tokens_per_second > 0
       IN  /\ passed' = [passed EXCEPT ![k] = IF refilled THEN 0 ELSE @]
           /\ IF tokens >= One
              THEN /\ level' = [level EXCEPT ![k] = tokens - One]
                   /\ Granted(c)
                   /\ UNCHANGED remaining
              ELSE /\ level' = [level EXCEPT ![k] = tokens]
                   /\ Sleep(c, CeilDiv(One - tokens, tokens_per_second))
    /\ UNCHANGED <<limiters, capacity>>

\* a fixed window that never limits: the permit is given whatever request_count is
FixedWindowRunUnlimited(c) ==
    /\ lpc[c] = "run"
    /\ LimiterOf(c) = "fixed_window"
    /\ LET k == "fixed_window"
           rolled == passed[k] >= window_seconds
       IN  /\ passed' = [passed EXCEPT ![k] = IF rolled THEN 0 ELSE @]
           /\ level' = [level EXCEPT ![k] = (IF rolled THEN 0 ELSE @) + 1]
           /\ Granted(c)
           /\ UNCHANGED remaining
    /\ UNCHANGED <<limiters, capacity>>

\* a fixed window that never starts a new window when the old one has elapsed
FixedWindowRunNoRoll(c) ==
    /\ lpc[c] = "run"
    /\ LimiterOf(c) = "fixed_window"
    /\ LET k == "fixed_window" IN
       /\ UNCHANGED passed
       /\ IF level[k] >= capacity[k]
          THEN /\ UNCHANGED level
               /\ Sleep(c, Max(0, window_seconds - passed[k]))
          ELSE /\ level' = [level EXCEPT ![k] = @ + 1]
               /\ Granted(c)
               /\ UNCHANGED remaining
    /\ UNCHANGED <<limiters, capacity>>

\* FixedWindowRateLimiter.acquire under the lock, up to its sleep or its return
FixedWindowRun(c) ==
    /\ lpc[c] = "run"
    /\ LimiterOf(c) = "fixed_window"
    /\ LET k == "fixed_window"
           rolled == passed[k] >= window_seconds
           window_age == IF rolled THEN 0 ELSE passed[k]
           request_count == IF rolled THEN 0 ELSE level[k]
       IN  /\ passed' = [passed EXCEPT ![k] = window_age]
           /\ IF request_count >= capacity[k]
              THEN /\ level' = [level EXCEPT ![k] = request_count]
                   /\ Sleep(c, window_seconds - window_age)
              ELSE /\ level' = [level EXCEPT ![k] = request_count + 1]
                   /\ Granted(c)
                   /\ UNCHANGED remaining
    /\ UNCHANGED <<limiters, capacity>>

\* an acquire that, after its sleep, keeps request_count and adds one to it
FixedWindowAfterSleepKeepsCount(c) ==
    /\ lpc[c] = "after_sleep"
    /\ LimiterOf(c) = "fixed_window"
    /\ passed' = [passed EXCEPT !["fixed_window"] = 0]
    /\ level' = [level EXCEPT !["fixed_window"] = @ + 1]
    /\ Granted(c)
    /\ UNCHANGED <<limiters, capacity, remaining>>

\* ... after the sleep: window_start = time.time(), request_count = 0, then += 1
FixedWindowAfterSleep(c) ==
    /\ lpc[c] = "after_sleep"
    /\ LimiterOf(c) = "fixed_window"
    /\ passed' = [passed EXCEPT !["fixed_window"] = 0]
    /\ level' = [level EXCEPT !["fixed_window"] = 1]
    /\ Granted(c)
    /\ UNCHANGED <<limiters, capacity, remaining>>

\* a leaky bucket that sleeps (volume - capacity) / leak_rate, one unit too short
LeakyBucketRunShortSleep(c) ==
    /\ lpc[c] = "run"
    /\ LimiterOf(c) = "leaky_bucket"
    /\ LET k == "leaky_bucket"
           current_volume == LeakedVolume
           leaked == passed[k] * leak_rate > 0
       IN  /\ passed' = [passed EXCEPT ![k] = IF leaked THEN 0 ELSE @]
           /\ IF current_volume < capacity[k] * One
              THEN /\ level' = [level EXCEPT ![k] = current_volume + One]
                   /\ Granted(c)
                   /\ UNCHANGED remaining
              ELSE /\ level' = [level EXCEPT ![k] = current_volume]
                   /\ Sleep(c, CeilDiv(current_volume - capacity[k] * One,
                                       leak_rate))
    /\ UNCHANGED <<limiters, capacity>>

\* LeakyBucketRateLimiter.acquire, one turn of its loop under the lock
LeakyBucketRun(c) ==
    /\ lpc[c] = "run"
    /\ LimiterOf(c) = "leaky_bucket"
    /\ LET k == "leaky_bucket"
           current_volume == LeakedVolume
           leaked == passed[k] * leak_rate > 0
       IN  /\ passed' = [passed EXCEPT ![k] = IF leaked THEN 0 ELSE @]
           /\ IF current_volume < capacity[k] * One
              THEN /\ level' = [level EXCEPT ![k] = current_volume + One]
                   /\ Granted(c)
                   /\ UNCHANGED remaining
              ELSE /\ level' = [level EXCEPT ![k] = current_volume]
                   /\ Sleep(c, CeilDiv(current_volume - capacity[k] * One + One,
                                       leak_rate))
    /\ UNCHANGED <<limiters, capacity>>

\* asyncio.sleep returns once its time has passed
Wake(c) ==
    /\ lpc[c] = "sleep"
    /\ remaining[c] = 0
    /\ lpc' = [lpc EXCEPT ![c] =
                 IF LimiterOf(c) = "fixed_window" THEN "after_sleep" ELSE "run"]
    /\ UNCHANGED <<limiters, capacity, level, passed, holder, waiters, at,
                   remaining, taken, grants, since_grant>>

\* one step of a caller inside CompositeRateLimiter.acquire
InAcquire(c) ==
    /\ \/ LockAcquire(c)
       \/ TokenBucketRun(c)
       \/ FixedWindowRun(c)
       \/ FixedWindowAfterSleep(c)
       \/ LeakyBucketRun(c)
       \/ Wake(c)
    /\ UNCHANGED <<cfg, sender, glob, sess, obs, up, phase, clock, store, wstate, ingress, hist>>

\* one tick of time passes for the limiters and the sleepers
Elapse ==
    /\ passed' = [k \in Kinds |-> Min(passed[k] + 1, PassedCap(k))]
    /\ remaining' = [c \in WorkerIds |-> Max(0, remaining[c] - 1)]
    /\ grants' = SelectSeq([i \in 1..Len(grants) |-> grants[i] + 1],
                           LAMBDA a : a <= Horizon)
    /\ since_grant' = Min(since_grant + 1, Horizon)
    /\ UNCHANGED <<limiters, capacity, level, holder, waiters, lpc, at, taken>>

LimiterTick ==
    /\ Elapse
    /\ UNCHANGED <<cfg, sender, glob, sess, obs, up, phase, clock, store, wstate, ingress, hist>>

\* a task calls CompositeRateLimiter.acquire: for limiter in self.limiters
CallAcquire(c) ==
    /\ lpc[c] = "idle"
    /\ lpc' = [lpc EXCEPT ![c] = "lock"]
    /\ at' = [at EXCEPT ![c] = 1]
    /\ taken' = [taken EXCEPT ![c] = 0]
    /\ UNCHANGED <<limiters, capacity, level, passed, holder, waiters,
                   remaining, grants, since_grant>>

\* ... and the call has returned to it
AcquireReturned(c) ==
    /\ lpc[c] = "done"
    /\ lpc' = [lpc EXCEPT ![c] = "idle"]
    /\ UNCHANGED <<limiters, capacity, level, passed, holder, waiters, at,
                   remaining, taken, grants, since_grant>>

\* a task that does nothing but acquire permits
Caller(c) ==
    /\ CallAcquire(c) \/ AcquireReturned(c)
    /\ UNCHANGED <<cfg, sender, glob, sess, obs, up, phase, clock, store, wstate, ingress, hist>>

\* -------------------------------------------------------------- worker
Noted(s, id) == IF id \in {s[i] : i \in 1..Len(s)} THEN s ELSE Append(s, id)

\* EmailWorker.start: while self.is_running: await self.rate_limiter.acquire()
Acquire(w) ==
    /\ pc[w] = "acquire"
    /\ is_running[w]
    /\ pc' = [pc EXCEPT ![w] = "dequeue"]
    /\ UNCHANGED <<cfg, sender, glob, sess, lim, obs, up, phase, clock, store, msg, result, fails, slept,
                   ingress, hist>>

\* RedisQueueManager.dequeue: one RPOPLPUSH; None on an empty list or an error
RedisDequeue(w) ==
    /\ backend = "redis"
    /\ pc[w] = "dequeue"
    /\ IF up /\ queue # << >>
       THEN /\ Len(processing) < MaxList
            /\ queue' = RedisQueueAfterPop(queue)
            /\ processing' = RedisProcessingAfterPop(queue, processing)
            /\ msg' = [msg EXCEPT ![w] = from_dict(RedisPopped(queue))]
            /\ pc' = [pc EXCEPT ![w] = "send"]
            /\ fresh' = FALSE
            /\ first_deq' = Noted(first_deq, RedisPopped(queue).id)
       ELSE /\ pc' = [pc EXCEPT ![w] = "acquire"]
            /\ UNCHANGED <<queue, processing, msg, fresh, first_deq>>
    /\ UNCHANGED <<cfg, sender, glob, sess, lim, obs, up, phase, clock, table, result, fails, slept, ingress,
                   delivered, settled, orphans, crashes, first_send>>

\* SQLiteQueueManager.dequeue, first half: the SELECT and fetchone
SQLiteDequeueSelect(w) ==
    /\ backend = "sqlite"
    /\ pc[w] = "dequeue"
    /\ IF up /\ SQLiteSelect(table) # {}
       THEN \E i \in SQLiteSelect(table) :
                /\ msg' = [msg EXCEPT ![w] = SQLiteRowMessage(table, i)]
                /\ pc' = [pc EXCEPT ![w] = "update"]
       ELSE /\ pc' = [pc EXCEPT ![w] = "acquire"]
            /\ UNCHANGED msg
    /\ UNCHANGED <<cfg, sender, glob, sess, lim, obs, up, phase, clock, store, result, fails, slept,
                   ingress, hist>>

\* SQLiteQueueManager.dequeue, second half: the UPDATE, the commit, the return
SQLiteDequeueUpdate(w) ==
    /\ backend = "sqlite"
    /\ pc[w] = "update"
    /\ IF up
       THEN /\ table' = SQLiteMarkProcessing(table, msg[w].id)
            /\ pc' = [pc EXCEPT ![w] = "send"]
            /\ fresh' = FALSE
            /\ first_deq' = Noted(first_deq, msg[w].id)
            /\ UNCHANGED msg
       ELSE /\ pc' = [pc EXCEPT ![w] = "acquire"]
            /\ msg' = [msg EXCEPT ![w] = NoMsg]
            /\ UNCHANGED <<table, fresh, first_deq>>
    /\ UNCHANGED <<cfg, sender, glob, sess, lim, obs, up, phase, clock, queue, processing, result, fails,
                   slept, ingress, delivered, settled, orphans, crashes,
                   first_send>>

\* a send_with_retry that returns the first failure, without a retry
SendTurnNoRetry(w, accepted) ==
    /\ pc[w] = "send"
    /\ first_send' = Noted(first_send, msg[w].id)
    /\ since_send' = 0
    /\ lag' = since_grant
    /\ result' = [result EXCEPT ![w] = IF accepted THEN "ok" ELSE "fail"]
    /\ pc' = [pc EXCEPT ![w] = "settle"]
    /\ delivered' = IF accepted THEN delivered \cup {msg[w].id} ELSE delivered
    /\ fails' = [fails EXCEPT ![w] = IF accepted THEN @ ELSE @ + 1]
    /\ UNCHANGED <<msg, slept>>
    /\ UNCHANGED <<cfg, glob, sess, lim, up, phase, clock, store, ingress,
                   settled, orphans, fresh, crashes, first_deq>>

\* RetryManager.send_with_retry, one turn of its loop: send_email, then return
\* the result or count a retry and sleep
SendTurn(w, accepted) ==
    /\ pc[w] = "send"
    /\ first_send' = Noted(first_send, msg[w].id)
    /\ since_send' = 0
    /\ lag' = since_grant
    /\ IF accepted
       THEN /\ result' = [result EXCEPT ![w] = "ok"]
            /\ pc' = [pc EXCEPT ![w] = "settle"]
            /\ delivered' = delivered \cup {msg[w].id}
            /\ UNCHANGED <<msg, fails, slept>>
       ELSE IF ~can_retry(msg[w], max_retries)
       THEN /\ result' = [result EXCEPT ![w] = "fail"]
            /\ pc' = [pc EXCEPT ![w] = "settle"]
            /\ fails' = [fails EXCEPT ![w] = @ + 1]
            /\ UNCHANGED <<msg, delivered, slept>>
       ELSE /\ slept' = [slept EXCEPT ![w] = @ + get_retry_delay(msg[w], retry_delay)]
            /\ msg' = [msg EXCEPT ![w] = increment_retry(msg[w], clock)]
            /\ fails' = [fails EXCEPT ![w] = @ + 1]
            /\ UNCHANGED <<pc, result, delivered>>
    /\ UNCHANGED <<cfg, glob, sess, lim, up, phase, clock, store, ingress,
                   settled, orphans, fresh, crashes, first_deq>>

\* ... over a connection that stays up: send_email raises no transport error
SendWithRetry(w, accepted) ==
    /\ SendTurn(w, accepted)
    /\ UNCHANGED sender


\* queue_manager.mark_completed(message.id, status) as the worker calls it, with
\* two positional arguments: whether the call itself raises
WorkerMarkRaises == CallRaises(2)

\* ... whether it changes an entry (a failed UPDATE / LREM is caught inside)
WorkerMarkEffective(id) ==
    /\ ~WorkerMarkRaises
    /\ up
    /\ id \in (IF backend = "redis" THEN SeqIds(processing) ELSE DOMAIN table)

\* ... and the store after it
TableAfterMark(id, st) ==
    IF ~WorkerMarkRaises /\ up /\ backend = "sqlite"
    THEN SQLiteMarkCompleted(table, id, st) ELSE table

ProcessingAfterMark(id) ==
    IF ~WorkerMarkRaises /\ up /\ backend = "redis"
    THEN RedisMarkCompleted(processing, id) ELSE processing

SettledAfterMark(id, st) ==
    IF WorkerMarkEffective(id) THEN [settled EXCEPT ![id] = st] ELSE settled

\* the worker is done with its message and goes back to acquire
Release(w) ==
    /\ pc' = [pc EXCEPT ![w] = "acquire"]
    /\ msg' = [msg EXCEPT ![w] = NoMsg]
    /\ result' = [result EXCEPT ![w] = "none"]
    /\ fails' = [fails EXCEPT ![w] = 0]
    /\ slept' = [slept EXCEPT ![w] = 0]

\* EmailWorker._process_message after send_with_retry returned: the first
\* queue call of the branch taken
ProcessResult(w) ==
    /\ pc[w] = "settle"
    /\ IF result[w] = "fail" /\ can_retry(msg[w], max_retries)
       THEN \* message.status = "pending"; enqueue(message); then mark_completed
            /\ EnqueueFits
            /\ msg' = [msg EXCEPT ![w].status = "pending"]
            /\ queue' = QueueAfterEnqueue([msg[w] EXCEPT !.status = "pending"])
            /\ table' = TableAfterEnqueue([msg[w] EXCEPT !.status = "pending"])
            /\ pc' = [pc EXCEPT ![w] = "mark_retry"]
            /\ UNCHANGED <<processing, result, fails, slept, settled>>
       ELSE LET st == IF result[w] = "ok" THEN "sent" ELSE "failed" IN
            IF WorkerMarkRaises
            THEN /\ pc' = [pc EXCEPT ![w] = "except"]
                 /\ UNCHANGED <<store, msg, result, fails, slept, settled>>
            ELSE /\ table' = TableAfterMark(msg[w].id, st)
                 /\ processing' = ProcessingAfterMark(msg[w].id)
                 /\ settled' = SettledAfterMark(msg[w].id, st)
                 /\ Release(w)
                 /\ UNCHANGED queue
    /\ UNCHANGED <<cfg, sender, glob, sess, lim, obs, up, phase, clock, ingress,
                   delivered, orphans, fresh, crashes, first_deq, first_send>>

\* _process_message, except Exception: message.status = "pending"; enqueue
ExceptRequeue(w) ==
    /\ pc[w] = "except"
    /\ EnqueueFits
    /\ msg' = [msg EXCEPT ![w].status = "pending"]
    /\ queue' = QueueAfterEnqueue([msg[w] EXCEPT !.status = "pending"])
    /\ table' = TableAfterEnqueue([msg[w] EXCEPT !.status = "pending"])
    /\ pc' = [pc EXCEPT ![w] = "except_mark"]
    /\ UNCHANGED <<cfg, sender, glob, sess, lim, obs, up, phase, clock, processing, result, fails, slept,
                   ingress, hist>>

\* mark_completed(message.id, "failed_retry"), after the enqueue of the retry
\* branch (inside the try) or of the except branch (inside its own try)
MarkFailedRetry(w) ==
    /\ pc[w] \in {"mark_retry", "except_mark"}
    /\ IF WorkerMarkRaises
       THEN IF pc[w] = "mark_retry"
            THEN /\ pc' = [pc EXCEPT ![w] = "except"]
                 /\ UNCHANGED <<msg, result, fails, slept>>
            ELSE Release(w)
       ELSE Release(w)
    /\ table' = TableAfterMark(msg[w].id, "failed_retry")
    /\ processing' = ProcessingAfterMark(msg[w].id)
    /\ settled' = SettledAfterMark(msg[w].id, "failed_retry")
    /\ UNCHANGED <<cfg, sender, glob, sess, lim, obs, up, phase, clock, queue, ingress,
                   delivered, orphans, fresh, crashes, first_deq, first_send>>

\* --------------------------------------------------------- environment
\* the process is killed: every task and its local state are gone, the store stays
Crash ==
    /\ phase = "up"
    /\ crashes < MaxCrashes
    /\ phase' = "down"
    /\ crashes' = crashes + 1
    /\ orphans' = InFlightIds
    /\ pc' = [w \in WorkerIds |-> IF pc[w] = "off" THEN "off" ELSE "down"]
    /\ msg' = [w \in WorkerIds |-> NoMsg]
    /\ result' = [w \in WorkerIds |-> "none"]
    /\ fails' = [w \in WorkerIds |-> 0]
    /\ slept' = [w \in WorkerIds |-> 0]
    /\ UNCHANGED <<cfg, sender, glob, sess, lim, obs, up, clock, store, ingress,
                   delivered, settled, fresh, first_deq, first_send>>

\* process start: create_queue_manager -> connect(), then EmailWorker.start
Restart ==
    /\ phase = "down"
    /\ up
    /\ phase' = "up"
    /\ fresh' = TRUE
    /\ pc' = [w \in WorkerIds |-> IF pc[w] = "off" THEN "off" ELSE "acquire"]
    /\ UNCHANGED <<cfg, sender, glob, sess, lim, obs, up, clock, store, msg, result, fails, slept, ingress,
                   delivered, settled, orphans, crashes, first_deq, first_send>>

\* the queue store becomes unreachable / reachable again
BackendDown ==
    /\ up
    /\ up' = FALSE
    /\ UNCHANGED <<cfg, sender, glob, sess, lim, obs, phase, clock, store, wstate, ingress, hist>>

BackendUp ==
    /\ ~up
    /\ up' = TRUE
    /\ UNCHANGED <<cfg, sender, glob, sess, lim, obs, phase, clock, store, wstate, ingress, hist>>

\* ------------------------------------------------------ specifications
\* the state after startup, with one worker as main.py starts it
InitStore ==
    /\ backend \in Backends
    /\ max_retries \in 0..MaxRetriesBound
    /\ up = TRUE
    /\ phase = "up"
    /\ clock = 0
    /\ next_id = 1
    /\ queue = << >>
    /\ processing = << >>
    /\ table = << >>
    /\ msg = [w \in WorkerIds |-> NoMsg]
    /\ result = [w \in WorkerIds |-> "none"]
    /\ fails = [w \in WorkerIds |-> 0]
    /\ slept = [w \in WorkerIds |-> 0]
    /\ last_resp = "none"
    /\ enq_ok = [i \in Ids |-> FALSE]
    /\ delivered = {}
    /\ settled = [i \in Ids |-> "none"]
    /\ orphans = {}
    /\ fresh = TRUE
    /\ crashes = 0
    /\ first_deq = << >>
    /\ first_send = << >>
    /\ global_rate_limiter = 0
    /\ instances = 0
    /\ got = [c \in WorkerIds |-> 0]
    /\ since_close = {}

\* EmailWorker.start has connected the sender and entered its loop
Started ==
    /\ is_running = [w \in WorkerIds |-> TRUE]
    /\ smtp_client = [w \in WorkerIds |-> "client"]
    /\ link = [w \in WorkerIds |-> "connected"]
    /\ found_broken = [w \in WorkerIds |-> FALSE]

\* no client has connected yet
IdleSession ==
    /\ authenticated = FALSE
    /\ auth_resp = "none"
    /\ mail_resp = "none"
    /\ supplied = << >>

\* CompositeRateLimiter.__init__ with the limiters ks, each of capacity n
LimiterStart(ks, n) ==
    /\ limiters = ks
    /\ capacity = [k \in Kinds |-> n]
    /\ level = [k \in Kinds |-> InitialLevel(k, n)]
    /\ passed = [k \in Kinds |-> 0]
    /\ holder = [k \in Kinds |-> "none"]
    /\ waiters = [k \in Kinds |-> << >>]
    /\ lpc = [c \in WorkerIds |-> "idle"]
    /\ at = [c \in WorkerIds |-> 1]
    /\ remaining = [c \in WorkerIds |-> 0]
    /\ taken = [c \in WorkerIds |-> 0]
    /\ grants = << >>
    /\ since_grant = 0
    /\ since_send = 0
    /\ lag = 0

\* the defaults: no authentication, the token bucket
Defaults ==
    /\ auth_required = FALSE
    /\ valid_users = {}
    /\ IdleSession
    /\ LimiterStart(<<"token_bucket">>, 1)

Init ==
    /\ InitStore
    /\ Started
    /\ Defaults
    /\ pc = [w \in WorkerIds |-> IF w = "w1" THEN "acquire" ELSE "off"]

\* two workers on the same queue manager
InitMW ==
    /\ InitStore
    /\ Started
    /\ Defaults
    /\ pc = [w \in WorkerIds |-> "acquire"]

Ingress ==
    \E f \in FromAddrs, t \in RcptLists, n \in BodySizes : HandleDATA(f, t, n)

Worker(w) ==
    \/ Acquire(w)
    \/ RedisDequeue(w)
    \/ SQLiteDequeueSelect(w)
    \/ SQLiteDequeueUpdate(w)
    \/ \E accepted \in BOOLEAN : SendWithRetry(w, accepted)
    \/ ProcessResult(w)
    \/ ExceptRequeue(w)
    \/ MarkFailedRetry(w)

Next ==
    \/ Ingress
    \/ Tick
    \/ \E w \in WorkerIds : Worker(w)

Spec == Init /\ [][Next]_vars

SpecMW == InitMW /\ [][Next]_vars

\* with outages of the queue store
NextF == Next \/ BackendDown \/ BackendUp
SpecF == Init /\ [][NextF]_vars

\* with a kill of the process and its restart
NextC == Next \/ Crash \/ Restart
SpecC == Init /\ [][NextC]_vars


\* the SQLite deployment (config.queue.backend = "sqlite"): the worker never
\* reaches the except branch there, mark_completed takes the status argument
InitSQLite == Init /\ backend = "sqlite"

WorkerSQLite(w) ==
    \/ Acquire(w)
    \/ SQLiteDequeueSelect(w)
    \/ SQLiteDequeueUpdate(w)
    \/ \E accepted \in BOOLEAN : SendWithRetry(w, accepted)
    \/ ProcessResult(w)

NextSQLite ==
    \/ Ingress
    \/ Tick
    \/ \E w \in WorkerIds : WorkerSQLite(w)

\* the worker loop is scheduled again and again by the event loop
FairSpecSQLite ==
    InitSQLite /\ [][NextSQLite]_vars /\ \A w \in WorkerIds : WF_vars(WorkerSQLite(w))

\* ... and a killed process is started again
FairSpecSQLiteC ==
    /\ InitSQLite
    /\ [][NextSQLite \/ Crash \/ Restart]_vars
    /\ WF_vars(Restart)
    /\ \A w \in WorkerIds : WF_vars(WorkerSQLite(w))

\* the SMTP session of one client at a time, in front of the queue
InitSession ==
    /\ InitStore
    /\ Started
    /\ pc = [w \in WorkerIds |-> IF w = "w1" THEN "acquire" ELSE "off"]
    /\ auth_required \in BOOLEAN
    /\ valid_users \in {{}, {ConfiguredUser}}
    /\ IdleSession
    /\ LimiterStart(<<"token_bucket">>, 1)

NextSession ==
    \/ NewSession
    \/ \E m \in Mechanisms, a \in Credentials : HandleAUTH(m, a)
    \/ HandleMAIL
    \/ Ingress

SpecSession == InitSession /\ [][NextSession]_vars

\* one limiter of each kind and capacity, and tasks that acquire permits from it
InitLimiter ==
    /\ InitStore
    /\ Started
    /\ backend = "redis"
    /\ max_retries = 0
    /\ pc = [w \in WorkerIds |-> "off"]
    /\ auth_required = FALSE
    /\ valid_users = {}
    /\ IdleSession
    /\ \E k \in Kinds, n \in 1..MaxCapacity : LimiterStart(<<k>>, n)

NextLimiter ==
    \/ LimiterTick
    \/ \E c \in WorkerIds : Caller(c) \/ InAcquire(c)

SpecLimiter == InitLimiter /\ [][NextLimiter]_vars

\* time passes, and the event loop runs every task that can go on
FairSpecLimiter ==
    /\ SpecLimiter
    /\ WF_vars(LimiterTick)
    /\ \A c \in WorkerIds : WF_vars(InAcquire(c))

\* the worker behind a token bucket of capacity 1, an upstream that accepts
\* every message: EmailWorker.start calls acquire before each dequeue
WorkerAcquire(w) ==
    /\ pc[w] = "acquire"
    /\ CallAcquire(w)
    /\ UNCHANGED <<cfg, sender, glob, sess, obs, up, phase, clock, store, wstate, ingress, hist>>

\* a worker that goes on to dequeue without a permit
WorkerAcquiredWithoutPermit(w) ==
    /\ pc[w] = "acquire"
    /\ lpc[w] \in {"idle", "done"}
    /\ lpc' = [lpc EXCEPT ![w] = "idle"]
    /\ UNCHANGED <<limiters, capacity, level, passed, holder, waiters, at,
                   remaining, taken, grants, since_grant>>
    /\ pc' = [pc EXCEPT ![w] = "dequeue"]
    /\ UNCHANGED <<cfg, sender, glob, sess, obs, up, phase, clock, store, msg, result, fails,
                   slept, ingress, hist>>

WorkerAcquired(w) ==
    /\ pc[w] = "acquire"
    /\ AcquireReturned(w)
    /\ pc' = [pc EXCEPT ![w] = "dequeue"]
    /\ UNCHANGED <<cfg, sender, glob, sess, obs, up, phase, clock, store, msg, result, fails,
                   slept, ingress, hist>>

TokenBucketAcquire(c) ==
    /\ LockAcquire(c) \/ TokenBucketRun(c) \/ Wake(c)
    /\ UNCHANGED <<cfg, sender, glob, sess, obs, up, phase, clock, store, wstate, ingress, hist>>

ShapedTick ==
    /\ Elapse
    /\ since_send' = Min(since_send + 1, Horizon)
    /\ UNCHANGED <<cfg, sender, glob, sess, lag, up, phase, clock, store, wstate, ingress, hist>>

ShapedWorker(w) ==
    \/ WorkerAcquire(w)
    \/ TokenBucketAcquire(w)
    \/ WorkerAcquired(w)
    \/ RedisDequeue(w)
    \/ SQLiteDequeueSelect(w)
    \/ SQLiteDequeueUpdate(w)
    \/ SendWithRetry(w, TRUE)
    \/ ProcessResult(w)
    \/ ExceptRequeue(w)
    \/ MarkFailedRetry(w)

InitShaped ==
    /\ InitStore
    /\ Started
    /\ max_retries = 0
    /\ pc = [w \in WorkerIds |-> IF w = "w1" THEN "acquire" ELSE "off"]
    /\ auth_required = FALSE
    /\ valid_users = {}
    /\ IdleSession
    /\ LimiterStart(<<"token_bucket">>, 1)

NextShaped ==
    \/ Ingress
    \/ ShapedTick
    \/ ShapedWorker("w1")

SpecShaped == InitShaped /\ [][NextShaped]_vars

\* -------------------------------------------------------------- claims
\* ids are given to the messages answered 250, in the order of their DATA
Accepted(id) == id < next_id

\* the status the queue holds for a settled message: the row's status column
\* (SQLite), the status of the mark_completed that removed the item (Redis)
StatusOf(id) ==
    IF backend = "sqlite"
    THEN IF id \in DOMAIN table THEN table[id].status ELSE "none"
    ELSE settled[id]

IsTerminal(id) == StatusOf(id) \in {"sent", "failed"}

Position(s, id) == CHOOSE i \in 1..Len(s) : s[i] = id
Listed(s, id) == \E i \in 1..Len(s) : s[i] = id
Before(s, a, b) == Listed(s, b) => (Listed(s, a) /\ Position(s, a) < Position(s, b))

\* C1: every message the ingress answered 250 for eventually is sent, or is
\* failed with retry_count >= max_retries, under fair scheduling of the worker.
C1_EventuallyTerminal ==
    \A id \in Ids :
        Accepted(id) ~>
            \/ StatusOf(id) = "sent"
            \/ /\ StatusOf(id) = "failed"
               /\ backend = "sqlite" => table[id].retry_count >= max_retries

\* C2: the ingress answers 250 only for a message whose enqueue succeeded; a
\* failed enqueue is never answered 250.
C2_AcceptedOnlyIfEnqueued ==
    \A id \in Ids : Accepted(id) => enq_ok[id]

\* C3: no message id is in ready and in in_flight at the same time.
C3_ReadyInFlightDisjoint == ReadyIds \cap InFlightIds = {}

\* C4: every accepted message is in exactly one of ready, in_flight, terminal.
C4_ExactlyOnePlace ==
    \A id \in Ids :
        (Accepted(id) /\ enq_ok[id]) =>
            Cardinality({k \in {"ready", "in_flight", "terminal"} :
                \/ k = "ready" /\ id \in ReadyIds
                \/ k = "in_flight" /\ id \in InFlightIds
                \/ k = "terminal" /\ IsTerminal(id)}) = 1

\* C5: once the upstream accepted a message and the worker is done with it, the
\* message is in neither ready nor in_flight (so it is not dequeued again).
C5_DeliveredIsSettled ==
    \A id \in delivered :
        (\A w \in WorkerIds : msg[w].id # id) =>
            (id \notin ReadyIds /\ id \notin InFlightIds)

\* C6: after process start and before the worker's first dequeue, recover() has
\* run and in_flight is empty.
C6_InFlightEmptyAfterStart ==
    (phase = "up" /\ fresh) => InFlightIds = {}

\* C7: a message that was in flight when the process was killed is, after the
\* restart, eventually in ready again with status pending (to be re-sent).
C7_OrphanRedispatched ==
    \A id \in Ids :
        (id \in orphans /\ phase = "up") ~>
            (id \in ReadyIds \/ (id \in delivered /\ StatusOf(id) = "sent"))

\* C8: a dequeue returns an entry to a caller only by taking it out of ready:
\* the entry is ready before the returning step and not ready after it, so no
\* entry is returned to two callers.
C8_DequeueExclusive ==
    [][\A w \in WorkerIds :
          (pc[w] \in {"dequeue", "update"} /\ pc'[w] = "send") =>
              (msg'[w].id \in ReadyIds /\ msg'[w].id \notin ReadyIds')]_vars

\* C9: with a single worker, if A was enqueued before B then A is dequeued
\* first and A's first upstream send precedes B's.
C9_FifoSingleWorker ==
        \A a, b \in Ids :
            (a < b /\ Accepted(a) /\ enq_ok[a] /\ Accepted(b) /\ enq_ok[b]) =>
                (Before(first_deq, a, b) /\ Before(first_send, a, b))

\* C10: a message settled as failed has retry_count = max_retries in its
\* terminal queue entry.
C10_FailedEntryRetryCount ==
    \A id \in DOMAIN table :
        table[id].status = "failed" => table[id].retry_count = max_retries

\* C11: when the upstream rejects the first k attempts of a message and accepts
\* attempt k+1 (k <= max_retries), the worker settles the message as sent with
\* retry_count = k, after sleeping retry_delay * (2^k - 1) seconds of backoff.
C11_TransientThenSent ==
    [][\A w \in WorkerIds, id \in Ids :
          (pc[w] = "settle" /\ result[w] = "ok" /\ msg[w].id = id
                /\ pc'[w] # "settle") =>
              /\ fails[w] <= max_retries
              /\ msg[w].retry_count = fails[w]
              /\ slept[w] = retry_delay * ((2 ^ fails[w]) - 1)
              /\ StatusOf(id)' = "sent"]_vars

\* the retry_count of the ready entries of a message
ReadyRetryCounts(id) ==
    IF backend = "redis"
    THEN {json_loads(queue[i]).retry_count :
              i \in {j \in 1..Len(queue) : json_loads(queue[j]).id = id}}
    ELSE {table[i].retry_count : i \in SQLitePending(table) \cap {id}}

\* C12: retry_count never decreases: not in the message a worker holds, not in
\* the ready entry of the queue, not from the worker's message to the entry it
\* re-enqueues, not from a ready entry to the message a later dequeue returns.
C12_RetryCountMonotone ==
    [][\A id \in Ids, w \in WorkerIds :
          /\ (msg[w].id = id /\ msg'[w].id = id) =>
                 msg'[w].retry_count >= msg[w].retry_count
          /\ (msg[w].id # id /\ msg'[w].id = id) =>
                 \A a \in ReadyRetryCounts(id) : msg'[w].retry_count >= a
          /\ ReadyRetryCounts(id)' # ReadyRetryCounts(id) =>
                 \A b \in ReadyRetryCounts(id)' :
                     /\ \A a \in ReadyRetryCounts(id) : b >= a
                     /\ msg[w].id = id => b >= msg[w].retry_count]_vars

\* a re-enqueued message was dequeued again and carries the retries counted before
C12_Witness ==
    \E w \in WorkerIds :
        pc[w] = "send" /\ fails[w] = 0 /\ msg[w].id \in Ids /\ msg[w].retry_count > 0

\* the status changes the lifecycle allows
StatusSteps ==
    {<<"pending", "sending">>, <<"sending", "sent">>, <<"sending", "failed">>,
     <<"sending", "failed_retry">>, <<"failed_retry", "pending">>}

\* C13: the status the queue holds for a message changes only along
\* pending -> sending -> {sent, failed, failed_retry} and failed_retry -> pending.
C13_StatusTransitions ==
    [][\A id \in Ids :
          (StatusOf(id) # "none" /\ StatusOf(id)' # StatusOf(id)) =>
              <<StatusOf(id), StatusOf(id)'>> \in StatusSteps]_vars

C14_NoSleepUnderLock ==
    \A c \in WorkerIds : lpc[c] = "sleep" => holder[LimiterOf(c)] # c

\* C15: the token bucket grants, in every interval of W ticks, at most
\* tokens_per_second * W + max_tokens permits, whatever the number of callers
\* (counted in halves of a token; grants holds the ages of the recent grants).
C15_TokenBucketRateBound ==
    limiters = <<"token_bucket">> =>
        \A i, j \in 1..Len(grants) :
            i <= j =>
                (j - i + 1) * One <=
                    tokens_per_second * (grants[i] - grants[j])
                        + capacity["token_bucket"] * One

\* the bound is met with equality over an interval in which tokens were refilled,
\* by permits of both callers
C15_Witness ==
    /\ limiters = <<"token_bucket">>
    /\ \A c \in WorkerIds : taken[c] = 1
    /\ \E i, j \in 1..Len(grants) :
          /\ i < j
          /\ grants[i] > grants[j]
          /\ (j - i + 1) * One =
                 tokens_per_second * (grants[i] - grants[j])
                     + capacity["token_bucket"] * One

PermitTicks == CeilDiv(One, tokens_per_second)

C18_MailNeedsAuth ==
    [][HandleMAIL =>
          IF auth_required /\ ~authenticated
          THEN mail_resp' = "530"
          ELSE mail_resp' = "250"]_vars

\* C19: with authentication required, a session is authenticated only when its
\* AUTH supplied the configured (username, password) pair; other credentials
\* are answered 535 and leave the session unauthenticated.
C19_OnlyConfiguredCredentials ==
    auth_required =>
        /\ authenticated => supplied = ConfiguredUser
        /\ (auth_resp \in {"235", "535"} /\ supplied # ConfiguredUser) =>
               (auth_resp = "535" /\ ~authenticated)

\* the step is a call of queue_manager.mark_completed(id, status) by worker w
SettleCall(w, id) ==
    /\ msg[w].id = id
    /\ \/ /\ ProcessResult(w)
          /\ ~(result[w] = "fail" /\ can_retry(msg[w], max_retries))
       \/ MarkFailedRetry(w)

\* C21: mark_completed(id, status) returns normally; called for an id that is
\* in flight it leaves the id out of in_flight and does not make it ready; called
\* for an id that is neither ready nor in flight (unknown, or settled before) it
\* leaves every queue entry as it was.
C21_SettleRemovesIdempotent ==
    [][\A w \in WorkerIds, id \in Ids :
          SettleCall(w, id) =>
              /\ ~WorkerMarkRaises
              /\ id \in InFlightIds =>
                     /\ id \notin InFlightIds'
                     /\ id \notin ReadyIds => id \notin ReadyIds'
              /\ id \notin (ReadyIds \cup InFlightIds) =>
                     <<queue, processing, table>>' = <<queue, processing, table>>]_vars

\* ------------------------------------- the worker's loop and its sender
\* EmailWorker.start up to its loop: await self.email_sender.connect(), outside
\* the try (an exception of connect leaves start), then is_running = True.
\* EmailSender.connect assigns smtp_client before it connects
Start(w, connected) ==
    /\ pc[w] = "start"
    /\ smtp_client' = [smtp_client EXCEPT ![w] = "client"]
    /\ IF connected
       THEN /\ link' = [link EXCEPT ![w] = "connected"]
            /\ is_running' = [is_running EXCEPT ![w] = TRUE]
            /\ pc' = [pc EXCEPT ![w] = "acquire"]
            /\ UNCHANGED found_broken
       ELSE /\ link' = [link EXCEPT ![w] = "broken"]
            /\ found_broken' = [found_broken EXCEPT ![w] = TRUE]
            /\ pc' = [pc EXCEPT ![w] = "start_failed"]
            /\ UNCHANGED is_running
    /\ UNCHANGED <<cfg, glob, sess, lim, obs, up, phase, clock, store, msg,
                   result, fails, slept, ingress, hist>>

\* a handler of the loop's `except Exception` that lets the exception leave start
LoopExceptLeaves(w) ==
    /\ pc[w] = "loop_except"
    /\ pc' = [pc EXCEPT ![w] = "exited"]
    /\ UNCHANGED <<cfg, sender, glob, sess, lim, obs, up, phase, clock, store,
                   msg, result, fails, slept, ingress, hist>>

\* the loop's try: rate_limiter.acquire() raises; control is in `except Exception`
AcquireRaises(w) ==
    /\ pc[w] = "acquire"
    /\ is_running[w]
    /\ pc' = [pc EXCEPT ![w] = "loop_except"]
    /\ UNCHANGED <<cfg, sender, glob, sess, lim, obs, up, phase, clock, store,
                   msg, result, fails, slept, ingress, hist>>

\* except Exception: log, await asyncio.sleep(5), back to the loop's test
LoopExcept(w) ==
    /\ pc[w] = "loop_except"
    /\ pc' = [pc EXCEPT ![w] = "acquire"]
    /\ UNCHANGED <<cfg, sender, glob, sess, lim, obs, up, phase, clock, store,
                   msg, result, fails, slept, ingress, hist>>

\* while self.is_running: the test fails, start returns
LoopExit(w) ==
    /\ pc[w] = "acquire"
    /\ ~is_running[w]
    /\ pc' = [pc EXCEPT ![w] = "exited"]
    /\ UNCHANGED <<cfg, sender, glob, sess, lim, obs, up, phase, clock, store,
                   msg, result, fails, slept, ingress, hist>>

\* what a send_email call can meet upstream
Outcomes == {"accepted", "refused", "transport_error"}

\* EmailSender.send_email inside send_with_retry's turn: connect only when
\* smtp_client is None, then sendmail on smtp_client; every exception is caught
\* and becomes a failed SendingResult; smtp_client is assigned nowhere else
SendEmail(w, outcome) ==
    /\ pc[w] = "send"
    /\ (smtp_client[w] = "client" /\ link[w] # "connected") =>
           outcome = "transport_error"
    /\ smtp_client' = [smtp_client EXCEPT ![w] = "client"]
    /\ link' = [link EXCEPT ![w] =
                  IF outcome = "transport_error"
                  THEN (IF @ = "closed" THEN "closed" ELSE "broken")
                  ELSE "connected"]
    /\ found_broken' = [found_broken EXCEPT ![w] =
                          IF outcome = "transport_error" THEN TRUE
                          ELSE IF smtp_client[w] = "none" THEN FALSE
                          ELSE @]
    /\ UNCHANGED is_running
    /\ SendTurn(w, outcome = "accepted")

\* EmailWorker.stop: is_running = False, then email_sender.close(): QUIT on
\* smtp_client when there is one, its errors swallowed
Stop(w) ==
    /\ is_running[w]
    /\ is_running' = [is_running EXCEPT ![w] = FALSE]
    /\ link' = [link EXCEPT ![w] =
                  IF smtp_client[w] = "client" /\ @ = "connected"
                  THEN "closed" ELSE @]
    /\ UNCHANGED <<smtp_client, found_broken>>
    /\ UNCHANGED <<cfg, glob, sess, lim, obs, up, phase, clock, store, wstate,
                   ingress, hist>>

\* the worker task before EmailWorker.start has run
InitLoop ==
    /\ InitStore
    /\ Defaults
    /\ pc = [w \in WorkerIds |-> IF w = "w1" THEN "start" ELSE "off"]
    /\ is_running = [w \in WorkerIds |-> FALSE]
    /\ smtp_client = [w \in WorkerIds |-> "none"]
    /\ link = [w \in WorkerIds |-> "none"]
    /\ found_broken = [w \in WorkerIds |-> FALSE]

LoopWorker(w) ==
    \/ \E connected \in BOOLEAN : Start(w, connected)
    \/ Acquire(w)
    \/ AcquireRaises(w)
    \/ LoopExcept(w)
    \/ LoopExit(w)
    \/ RedisDequeue(w)
    \/ SQLiteDequeueSelect(w)
    \/ SQLiteDequeueUpdate(w)
    \/ \E outcome \in Outcomes : SendEmail(w, outcome)
    \/ ProcessResult(w)
    \/ ExceptRequeue(w)
    \/ MarkFailedRetry(w)

NextLoop ==
    \/ Ingress
    \/ \E w \in WorkerIds : LoopWorker(w)
    \/ \E w \in WorkerIds : Stop(w)

SpecLoop == InitLoop /\ [][NextLoop]_vars

\* the event loop runs the worker task whenever it can go on
FairSpecLoop == SpecLoop /\ \A w \in WorkerIds : WF_vars(LoopWorker(w))

\* the positions of a worker inside the loop of EmailWorker.start
InLoop(p) ==
    p \in {"acquire", "dequeue", "update", "send", "settle", "mark_retry",
           "except", "except_mark", "loop_except"}

\* C22: the worker leaves its loop only at the loop's test and only after stop()
\* cleared is_running; an exception raised by acquire (caught by the loop) or by
\* settle (caught in _process_message) leaves the worker in the loop, and the
\* worker comes back to the top of the loop for the next message.
C22_LoopSurvivesErrors ==
    /\ [](\A w \in WorkerIds : pc[w] = "exited" => ~is_running[w])
    /\ [][\A w \in WorkerIds :
             (InLoop(pc[w]) /\ ~InLoop(pc'[w])) =>
                 (pc[w] = "acquire" /\ ~is_running[w] /\ pc'[w] = "exited")]_vars
    /\ \A w \in WorkerIds :
           (pc[w] \in {"loop_except", "except", "except_mark"}) ~> (pc[w] = "acquire")

\* acquire has raised, the worker runs and a message waits in the queue
C22_Witness ==
    \E w \in WorkerIds :
        pc[w] = "loop_except" /\ is_running[w] /\ ReadyIds # {} /\ delivered # {}

\* C23: in the except branch of _process_message the worker re-enqueues the
\* message (status pending) only when retry_count < max_retries and then the
\* message is ready again when the worker lets go of it; with the budget
\* exhausted it enqueues nothing and the message ends as failed.
C23_ExceptRespectsBudget ==
    [][\A w \in WorkerIds, id \in Ids :
          msg[w].id = id =>
              /\ (ExceptRequeue(w) /\ ~can_retry(msg[w], max_retries)) =>
                     <<queue, table>>' = <<queue, table>>
              /\ (pc[w] = "except_mark" /\ pc'[w] # "except_mark") =>
                     IF can_retry(msg[w], max_retries)
                     THEN id \in ReadyIds' /\ msg[w].status = "pending"
                     ELSE StatusOf(id)' = "failed" /\ id \notin ReadyIds']_vars

\* after a call of queue_manager.enqueue(m) that stored an entry, the entry
\* reads back as m
StoredReadsBack(m) ==
    /\ (up /\ backend = "redis") => from_dict(json_loads(Head(queue'))) = m
    /\ (up /\ backend = "sqlite" /\ m.id \notin DOMAIN table) =>
           SQLiteRowMessage(table', m.id) = m

\* the columns of a row that the INSERT wrote and no UPDATE of the program names
RowFields(r) ==
    <<r.from_addr, r.to_addrs, r.message_headers, r.message_body, r.created_at,
      r.retry_count, r.last_retry_at>>

\* C24: from_dict(to_dict(m)) = m, and a dequeued message has the fields of the
\* enqueued one: the entry an enqueue stores reads back as the message that was
\* enqueued (Redis item, SQLite row), the entry is not changed while it waits
\* (the Redis list only gains an item at its head or loses the one at its tail,
\* a waiting row keeps its columns), and dequeue returns the entry as read back.
C24_RoundTrip ==
    [][/\ \A w \in WorkerIds :
             /\ msg'[w] # NoMsg => from_dict(to_dict(msg'[w])) = msg'[w]
             /\ (pc[w] = "dequeue" /\ pc'[w] = "send") =>
                    /\ msg'[w] = from_dict(json_loads(queue[Len(queue)]))
                    /\ Head(processing') = queue[Len(queue)]
             /\ (pc[w] = "dequeue" /\ pc'[w] = "update") =>
                    \E i \in SQLitePending(table) :
                        msg'[w] = SQLiteRowMessage(table, i)
       /\ \A f \in FromAddrs, t \in RcptLists, n \in BodySizes :
             (ValidateMessage(f, t, n) /\ HandleDATA(f, t, n)) =>
                 StoredReadsBack(NewMessage(next_id, clock, f, t, n))
       /\ \A w \in WorkerIds :
             (ExceptRequeue(w) \/ (ProcessResult(w) /\ pc'[w] = "mark_retry")) =>
                 StoredReadsBack([msg[w] EXCEPT !.status = "pending"])
       /\ \A id \in DOMAIN table :
             /\ id \in DOMAIN table'
             /\ RowFields(table'[id]) = RowFields(table[id])
             /\ id \in SQLitePending(table) => table'[id].status = "pending"
       /\ \/ queue' = queue
          \/ queue # << >> /\ queue' = RedisQueueAfterPop(queue)
          \/ queue' # << >> /\ Tail(queue') = queue]_vars

\* a worker holds a message that was re-enqueued after a retry and dequeued
\* again: retry_count and last_retry_at are not the defaults
C24_Witness ==
    \E w \in WorkerIds :
        /\ pc[w] = "send"
        /\ fails[w] = 0
        /\ msg[w].retry_count > 0
        /\ msg[w].last_retry_at > 0
        /\ msg[w].message_headers = [From |-> "a@x"]
        /\ msg[w].to_addrs = <<"b@y">>

\* the worker is between the dequeue of a message and the end of its settle
Processing(w) ==
    pc[w] \in {"send", "settle", "mark_retry", "except", "except_mark"}

\* C25: the upstream connection is not closed while the worker is sending or
\* settling a message (stop() lets the worker finish first), and once the worker
\* has left its loop no message is left in in_flight.
C25_GracefulStop ==
    /\ [][\A w \in WorkerIds :
             (link[w] # "closed" /\ link'[w] = "closed") => ~Processing(w)]_vars
    /\ [](\A w \in WorkerIds : pc[w] = "exited" => InFlightIds = {})

\* C26: a connect or a send that met a transport error leaves the client without
\* a connection (smtp_client is None again), so that the next send_email connects
\* anew; send_email never runs sendmail on a client that a previous call found
\* broken.
C26_ReconnectAfterError ==
    [][\A w \in WorkerIds :
          /\ (\E o \in Outcomes : SendEmail(w, o)) =>
                 (smtp_client[w] = "client" => ~found_broken[w])
          /\ (pc[w] \in {"start", "send"} /\ found_broken'[w]) =>
                 smtp_client'[w] = "none"]_vars

\* ------------------------------------------ the global rate limiter
\* a get_rate_limiter that builds a new limiter at every call
GetRateLimiterAlwaysNew(c) ==
    /\ instances < MaxInstances
    /\ instances' = instances + 1
    /\ global_rate_limiter' = instances + 1
    /\ got' = [got EXCEPT ![c] = instances + 1]
    /\ since_close' = since_close \cup {c}
    /\ UNCHANGED <<cfg, sender, sess, lim, obs, up, phase, clock, store, wstate,
                   ingress, hist>>

\* get_rate_limiter: create the limiter when the global is None, return the
\* global (create_rate_limiter only builds the object: the call does not suspend)
GetRateLimiter(c) ==
    /\ IF global_rate_limiter = 0
       THEN /\ instances < MaxInstances
            /\ instances' = instances + 1
            /\ global_rate_limiter' = instances + 1
       ELSE UNCHANGED <<instances, global_rate_limiter>>
    /\ got' = [got EXCEPT ![c] = global_rate_limiter']
    /\ since_close' = since_close \cup {c}
    /\ UNCHANGED <<cfg, sender, sess, lim, obs, up, phase, clock, store, wstate,
                   ingress, hist>>

\* close_rate_limiter: close the global when there is one, then set it to None
\* (the close() of every limiter is empty)
CloseRateLimiter ==
    /\ global_rate_limiter' = 0
    /\ since_close' = {}
    /\ UNCHANGED <<instances, got>>
    /\ UNCHANGED <<cfg, sender, sess, lim, obs, up, phase, clock, store, wstate,
                   ingress, hist>>

\* tasks that get and close the global limiter; no worker runs
InitSingleton ==
    /\ InitStore
    /\ Started
    /\ Defaults
    /\ backend = "redis"
    /\ max_retries = 0
    /\ pc = [w \in WorkerIds |-> "off"]

NextSingleton ==
    \/ \E c \in WorkerIds : GetRateLimiter(c)
    \/ CloseRateLimiter

SpecSingleton == InitSingleton /\ [][NextSingleton]_vars

\* C27: the callers of get_rate_limiter since the latest close_rate_limiter (or
\* since the start) all got the same instance, the one the global holds; a call
\* that finds no global (first call, or first after a close) gets an instance
\* that no earlier call returned.
C27_Singleton ==
    /\ [](\A c \in since_close :
              /\ got[c] # 0
              /\ got[c] = global_rate_limiter
              /\ \A d \in since_close : got[d] = got[c])
    /\ [][\A c \in WorkerIds :
             (GetRateLimiter(c) /\ global_rate_limiter = 0) =>
                 /\ got'[c] > instances
                 /\ \A d \in WorkerIds : got'[c] # got[d]]_vars

\* both callers hold the second instance, created after a close
C27_Witness ==
    /\ since_close = WorkerIds
    /\ global_rate_limiter = 2
    /\ \A c \in WorkerIds : got[c] = 2

\* the fixed window is full and has not elapsed: request_count >= the limit
WindowFull ==
    /\ limiters = <<"fixed_window">>
    /\ passed["fixed_window"] < window_seconds
    /\ level["fixed_window"] >= capacity["fixed_window"]

C29_GrantedAfterWindow ==
    [][\A c \in WorkerIds :
          limiters = <<"fixed_window">> =>
              /\ (FixedWindowRun(c) /\ passed["fixed_window"] >= window_seconds) =>
                     /\ lpc'[c] = "done"
                     /\ taken'[c] = taken[c] + 1
                     /\ level'["fixed_window"] = 1
                     /\ passed'["fixed_window"] = 0
              /\ (lpc[c] = "after_sleep" /\ lpc'[c] # "after_sleep") =>
                     /\ lpc'[c] = "done"
                     /\ taken'[c] = taken[c] + 1
                     /\ level'["fixed_window"] = 1]_vars

\* the window was full and has elapsed, and a caller is about to run in it
C29_Witness ==
    /\ limiters = <<"fixed_window">>
    /\ level["fixed_window"] = capacity["fixed_window"]
    /\ passed["fixed_window"] >= window_seconds
    /\ \E c \in WorkerIds : lpc[c] = "run" /\ holder["fixed_window"] = c

\* the grants since window_start
GrantsInWindow ==
    {i \in 1..Len(grants) : grants[i] <= passed["fixed_window"]}

\* C30: the count of the fixed window never exceeds the limit, no more than
\* `limit` permits are granted since the latest window reset, a caller sleeps
\* only while the window is full, and an acquire that finds the count below the
\* limit is granted at once; all this with concurrent callers.
C30_FixedWindowBound ==
    /\ [](limiters = <<"fixed_window">> =>
              /\ level["fixed_window"] <= capacity["fixed_window"]
              /\ Cardinality(GrantsInWindow) <= capacity["fixed_window"]
              /\ \A c \in WorkerIds :
                     lpc[c] = "sleep" =>
                         level["fixed_window"] >= capacity["fixed_window"])
    /\ [][\A c \in WorkerIds :
             (/\ limiters = <<"fixed_window">>
              /\ passed["fixed_window"] < window_seconds
              /\ level["fixed_window"] < capacity["fixed_window"]
              /\ FixedWindowRun(c)) =>
                 /\ lpc'[c] = "done"
                 /\ level'["fixed_window"] = level["fixed_window"] + 1
                 /\ remaining' = remaining]_vars

\* both callers were granted in the same window, which is now full
C30_Witness ==
    /\ limiters = <<"fixed_window">>
    /\ capacity["fixed_window"] = 2
    /\ level["fixed_window"] = 2
    /\ Cardinality(GrantsInWindow) = 2
    /\ \A c \in WorkerIds : lpc[c] = "done" /\ taken[c] = 1

\* the retry_count of the queue entry the worker's message was dequeued from:
\* the item the latest RPOPLPUSH pushed (Redis), the row of the id (SQLite)
EnteredWith(w) ==
    IF backend = "redis"
    THEN json_loads(Head(processing)).retry_count
    ELSE table[msg[w].id].retry_count

CompositeOrder == <<"token_bucket", "fixed_window", "leaky_bucket">>

CompositeLists ==
    {SelectSeq(CompositeOrder, LAMBDA k : k \in enabled) :
         enabled \in {e \in SUBSET Kinds : Cardinality(e) >= 2}}

InitComposite ==
    /\ InitStore
    /\ Started
    /\ backend = "redis"
    /\ max_retries = 0
    /\ pc = [w \in WorkerIds |-> "off"]
    /\ auth_required = FALSE
    /\ valid_users = {}
    /\ IdleSession
    /\ \E ks \in CompositeLists : LimiterStart(ks, 1)

SpecComposite == InitComposite /\ [][NextLimiter]_vars

\* the place of limiter k in CompositeRateLimiter.limiters (0: not in the list)
PlaceOf(k) ==
    IF \E i \in 1..Len(limiters) : limiters[i] = k
    THEN CHOOSE i \in 1..Len(limiters) : limiters[i] = k
    ELSE 0

\* caller c has asked limiter k: it owns its lock or waits for it
Asked(c, k) ==
    holder[k] = c \/ \E i \in 1..Len(waiters[k]) : waiters[k][i] = c

\* one permit of limiter k, in the unit of its level
Permit(k) == IF k = "fixed_window" THEN 1 ELSE One

\* C32: the composite acquire returns only with one permit of every sub-limiter
\* taken; the permits are taken in list order, one sub-limiter at a time; while
\* a caller is in sub-limiter i (waiting for its lock, running or sleeping in it)
\* it has asked no other sub-limiter; the step that grants a permit takes exactly
\* one permit from that sub-limiter and leaves the level of the others as it was.
C32_CompositeInOrder ==
    /\ [](\A c \in WorkerIds :
              /\ lpc[c] = "done" => (taken[c] = Len(limiters) /\ at[c] = Len(limiters))
              /\ lpc[c] \notin {"idle", "done"} =>
                     /\ at[c] = taken[c] + 1
                     /\ at[c] \in 1..Len(limiters)
              /\ \A k \in Kinds :
                     Asked(c, k) =>
                         (lpc[c] \notin {"idle", "done"} /\ PlaceOf(k) = at[c]))
    /\ [][\A c \in WorkerIds :
             taken'[c] = taken[c] + 1 =>
                 LET k == LimiterOf(c) IN
                 /\ PlaceOf(k) = taken[c] + 1
                 /\ lpc'[c] = IF taken'[c] = Len(limiters) THEN "done" ELSE "lock"
                 /\ at'[c] = IF taken'[c] = Len(limiters) THEN at[c] ELSE at[c] + 1
                 /\ \A j \in Kinds : j # k => level'[j] = level[j]
                 /\ \/ k = "token_bucket" /\ level'[k] = RefilledTokens - Permit(k)
                    \/ k = "leaky_bucket" /\ level'[k] = LeakedVolume + Permit(k)
                    \/ /\ k = "fixed_window"
                       /\ level'[k] \in {level[k] + Permit(k), Permit(k)}]_vars

\* three sub-limiters: one caller holds the permits of the first two and sleeps
\* in the third, the other caller has returned with all three
C32_Witness ==
    /\ Len(limiters) = 3
    /\ \E c, d \in WorkerIds :
          /\ lpc[c] = "sleep" /\ at[c] = 3 /\ taken[c] = 2
          /\ lpc[d] = "done" /\ taken[d] = 3

\* envelope.content as received: the header lines, then the body. Each header
\* line counts as one byte (a real one has more); message_from_bytes splits the
\* two and from_smtp_message keeps the decoded payload as message_body
HeaderBytes(headers) == Cardinality({h \in DOMAIN headers : headers[h] # ""})

DataBytes(from_addr, to_addrs, size) ==
    HeaderBytes(NewMessage(0, 0, from_addr, to_addrs, size).message_headers) + size

\* C33: a DATA with a sender and a recipient is answered 550 exactly when the
\* byte size of its DATA block (headers plus body, as received) exceeds
\* max_message_size.
C33_SizeCheckOnDataBytes ==
    [][\A f \in FromAddrs, t \in RcptLists, n \in BodySizes :
          (HandleDATA(f, t, n) /\ f # "" /\ t # << >>) =>
              (last_resp' = "550" <=> DataBytes(f, t, n) > max_message_size)]_vars

\* ------------------------------------------------ send_email's result
\* what `await self.smtp_client.sendmail(...)` does for a message to the
\* recipients rcpts: it raises, or it returns a value. aiosmtplib's sendmail
\* returns the pair (refused recipients with their responses, response text);
\* smtplib's returns the dict of refused recipients alone
Raised == {"sender_refused", "recipients_refused", "data_error", "transport_error"}

SendmailBehaviours(rcpts) ==
    [kind : {"raises"}, error : Raised, shape : {"none"}, refused : {{}}]
        \cup [kind : {"returns"}, error : {"none"}, shape : {"dict", "pair"},
              refused : SUBSET {rcpts[i] : i \in 1..Len(rcpts)}]

\* `if errors:` on the returned value: an empty dict is false, a dict with an
\* item is true, a pair is true whatever its items are
Truthy(b) == IF b.shape = "pair" THEN TRUE ELSE b.refused # {}

\* EmailSender.send_email: the SendingResult it returns
send_email(b) ==
    IF b.kind = "raises"
    THEN [success |-> FALSE, error_message |-> "exception"]
    ELSE IF Truthy(b)
    THEN [success |-> FALSE, error_message |-> "errors"]
    ELSE [success |-> TRUE, error_message |-> "none"]

\* send_email inside send_with_retry's turn, with what sendmail did
SendEmailCall(w, b) ==
    SendEmail(w, IF send_email(b).success THEN "accepted"
                 ELSE IF b.kind = "raises" /\ b.error = "transport_error"
                 THEN "transport_error"
                 ELSE "refused")

SendWorker(w) ==
    \/ \E connected \in BOOLEAN : Start(w, connected)
    \/ Acquire(w)
    \/ RedisDequeue(w)
    \/ SQLiteDequeueSelect(w)
    \/ SQLiteDequeueUpdate(w)
    \/ \E b \in SendmailBehaviours(msg[w].to_addrs) : SendEmailCall(w, b)
    \/ ProcessResult(w)
    \/ ExceptRequeue(w)
    \/ MarkFailedRetry(w)

NextSend ==
    \/ Ingress
    \/ \E w \in WorkerIds : SendWorker(w)

SpecSend == InitLoop /\ [][NextSend]_vars

\* the upstream accepted the message for every recipient
AcceptedForAll(b) == b.kind = "returns" /\ b.refused = {}

\* C34: send_email returns success = true exactly when the upstream accepted
\* the message for every recipient; a refused recipient, a refusal of MAIL or
\* DATA and a transport error give success = false with an error text; the call
\* returns to send_with_retry in every case.
C34_SuccessIffAccepted ==
    [][\A w \in WorkerIds :
          \A b \in SendmailBehaviours(msg[w].to_addrs) :
              SendEmailCall(w, b) =>
                  /\ send_email(b).success <=> AcceptedForAll(b)
                  /\ ~send_email(b).success => send_email(b).error_message # "none"
                  /\ result'[w] = "ok" <=> AcceptedForAll(b)
                  /\ pc'[w] \in {"send", "settle"}]_vars

\* C35: when send_with_retry has returned a failing result the message's
\* retry_count is >= max_retries; so _process_message, on the path on which no
\* queue call raises, never takes the branch that re-enqueues the message, and
\* settles every message whose send failed as failed.
C35_FailureMeansBudgetSpent ==
    /\ [](\A w \in WorkerIds :
              (pc[w] = "settle" /\ result[w] = "fail") =>
                  /\ msg[w].retry_count >= max_retries
                  /\ ~can_retry(msg[w], max_retries))
    /\ [][\A w \in WorkerIds, id \in Ids :
             (msg[w].id = id /\ ProcessResult(w)) =>
                 /\ pc'[w] # "mark_retry"
                 /\ queue' = queue
                 /\ DOMAIN table' = DOMAIN table
                 /\ (result[w] = "fail" /\ ~WorkerMarkRaises) =>
                        /\ StatusOf(id)' = "failed"
                        /\ id \notin ReadyIds'
                        /\ id \notin InFlightIds'
                        /\ pc'[w] = "acquire"]_vars

\* a message was rejected on every attempt, the retry included, and its row is
\* settled as failed; the worker is back at the top of its loop
C35_Witness ==
    /\ backend = "sqlite"
    /\ max_retries = 1
    /\ \E id \in DOMAIN table :
          /\ table[id].status = "failed"
          /\ id \notin delivered
    /\ \A w \in WorkerIds : pc[w] \in {"acquire", "off"}

\* C36: the token bucket keeps 0 <= tokens <= max_tokens in every state, also
\* right after a refill; a permit is granted only when the refilled tokens are
\* >= 1, the grant lowers them by exactly 1, and with less than one token the
\* caller gets no permit in that turn (it sleeps); for any interleaving of the
\* callers and any elapsed time.
C36_TokenBucketInvariant ==
    /\ [](limiters = <<"token_bucket">> =>
              /\ level["token_bucket"] \in 0..(capacity["token_bucket"] * One)
              /\ RefilledTokens \in 0..(capacity["token_bucket"] * One))
    /\ [][\A c \in WorkerIds :
             (limiters = <<"token_bucket">> /\ TokenBucketRun(c)) =>
                 IF RefilledTokens >= One
                 THEN /\ taken'[c] = taken[c] + 1
                      /\ level'["token_bucket"] = RefilledTokens - One
                      /\ lpc'[c] = "done"
                 ELSE /\ taken'[c] = taken[c]
                      /\ grants' = grants
                      /\ level'["token_bucket"] = RefilledTokens
                      /\ lpc'[c] = "sleep"
                      /\ remaining'[c] > 0]_vars
    /\ [][\A c \in WorkerIds :
             (limiters = <<"token_bucket">> /\ taken'[c] = taken[c] + 1) =>
                 /\ RefilledTokens >= One
                 /\ level'["token_bucket"] = RefilledTokens - One]_vars

\* half a token is in the bucket: one caller took the only token, the other
\* found half a token refilled and sleeps for the rest
C36_Witness ==
    /\ limiters = <<"token_bucket">>
    /\ level["token_bucket"] = 1
    /\ \E c, d \in WorkerIds :
          /\ lpc[c] = "sleep" /\ taken[c] = 0
          /\ lpc[d] = "done" /\ taken[d] = 1

\* caller c owns the leaky bucket's lock and is about to check the volume
AboutToCheck(c) ==
    lpc[c] = "run" /\ holder["leaky_bucket"] = c

\* C37: the leaky bucket keeps 0 <= volume < capacity + 1; a permit is granted
\* only when the leaked volume is < capacity and raises it by exactly 1; a
\* caller sleeps only when the leaked volume is >= capacity, for
\* (volume - capacity + 1) / leak_rate; when that sleep is over the leaked
\* volume is < capacity and stays so until the caller checks it, and the check
\* then grants the permit: one acquire sleeps at most once.
C37_LeakyBucketInvariant ==
    /\ [](limiters = <<"leaky_bucket">> =>
              /\ level["leaky_bucket"] >= 0
              /\ level["leaky_bucket"] < (capacity["leaky_bucket"] + 1) * One
              /\ LeakedVolume >= 0
              /\ \A c \in WorkerIds :
                     (lpc[c] = "sleep" /\ remaining[c] = 0) =>
                         LeakedVolume < capacity["leaky_bucket"] * One)
    /\ [][\A c \in WorkerIds :
             limiters = <<"leaky_bucket">> =>
                 /\ taken'[c] = taken[c] + 1 =>
                        /\ LeakedVolume < capacity["leaky_bucket"] * One
                        /\ level'["leaky_bucket"] = LeakedVolume + One
                 /\ (LeakyBucketRun(c) /\ lpc'[c] = "sleep") =>
                        /\ LeakedVolume >= capacity["leaky_bucket"] * One
                        /\ remaining'[c] * leak_rate >=
                               LeakedVolume - capacity["leaky_bucket"] * One + One
                 /\ (lpc[c] = "sleep" /\ lpc'[c] = "run") =>
                        LeakedVolume' < capacity["leaky_bucket"] * One
                 /\ (AboutToCheck(c) /\ AboutToCheck(c)'
                         /\ LeakedVolume < capacity["leaky_bucket"] * One) =>
                        LeakedVolume' < capacity["leaky_bucket"] * One
                 /\ (LeakyBucketRun(c)
                         /\ LeakedVolume < capacity["leaky_bucket"] * One) =>
                        (lpc'[c] = "done" /\ taken'[c] = taken[c] + 1)]_vars

\* a caller has slept the computed time in a bucket the other caller's permit
\* filled, and its sleep is over: the volume has leaked below the capacity
C37_Witness ==
    /\ limiters = <<"leaky_bucket">>
    /\ level["leaky_bucket"] >= capacity["leaky_bucket"] * One
    /\ \E c, d \in WorkerIds :
          /\ lpc[c] = "sleep" /\ remaining[c] = 0 /\ taken[c] = 0
          /\ lpc[d] = "done" /\ taken[d] = 1

\* C38: the worker calls dequeue only after an acquire that returned with its
\* permit, and one returned acquire allows one dequeue call: the next dequeue
\* needs a new acquire, also when the dequeue returned none, so the dequeues
\* never outnumber the permits; an iteration whose dequeue returned none sends
\* nothing, settles nothing and leaves the queue as it was.
C38_PermitBeforeDequeue ==
    /\ [](\A w \in WorkerIds :
              /\ pc[w] \in {"dequeue", "update"} => lpc[w] = "idle"
              /\ pc[w] \in {"send", "settle", "mark_retry", "except", "except_mark"} =>
                     (lpc[w] = "idle" /\ msg[w] # NoMsg)
              /\ lpc[w] # "idle" => pc[w] = "acquire")
    /\ [][\A w \in WorkerIds :
             /\ (pc[w] # "dequeue" /\ pc'[w] = "dequeue") =>
                    /\ pc[w] = "acquire"
                    /\ lpc[w] = "done"
                    /\ taken[w] = 1
                    /\ lpc'[w] = "idle"
             /\ (pc[w] = "dequeue" /\ pc'[w] # "dequeue") =>
                    pc'[w] \in {"send", "update", "acquire"}
             /\ (pc[w] \in {"dequeue", "update"} /\ pc'[w] = "acquire") =>
                    /\ msg'[w] = NoMsg
                    /\ lpc'[w] = "idle"
                    /\ UNCHANGED <<queue, processing, table, first_deq, first_send,
                                   delivered, settled, level, grants>>
             /\ (first_send' # first_send \/ delivered' # delivered
                     \/ settled' # settled) =>
                    (\E v \in WorkerIds : msg[v] # NoMsg /\ pc[v] # "acquire")]_vars

\* the worker took a permit, its dequeue returned none, and it is back at the
\* top of the loop with the token spent and nothing dequeued yet
C38_Witness ==
    \E w \in WorkerIds :
        /\ pc[w] = "acquire"
        /\ lpc[w] = "idle"
        /\ grants # << >>
        /\ level["token_bucket"] = 0
        /\ first_deq = << >>
        /\ msg[w] = NoMsg

\* ------------------------------------- enqueue of an id that is present
\* queue_manager.enqueue(message) for a message whose id has a row: the call
\* that lines 174-175 and 187-188 of _process_message make, with the message
\* as the worker holds it after a retry (status pending, retry_count raised)
EnqueueAgain(id) ==
    /\ phase = "up"
    /\ id \in DOMAIN table
    /\ LET m == [SQLiteRowMessage(table, id) EXCEPT
                     !.status = "pending", !.retry_count = @ + 1] IN
       /\ queue' = QueueAfterEnqueue(m)
       /\ table' = TableAfterEnqueue(m)
       /\ enq_ok' = [enq_ok EXCEPT ![id] = EnqueueReturns(m)]
    /\ UNCHANGED <<processing, next_id, last_resp>>
    /\ UNCHANGED <<cfg, sender, glob, sess, lim, obs, up, phase, clock, wstate, hist>>

NextSQLiteAgain ==
    \/ NextSQLite
    \/ \E id \in Ids : EnqueueAgain(id)

SpecSQLiteAgain == InitSQLite /\ [][NextSQLiteAgain]_vars

\* C39: SQLite backend: the table holds at most one row per message id, an
\* enqueue of a new id adds its one row and returns True, and an enqueue of a
\* message whose id is present returns False and leaves the table as it was:
\* the row keeps its status, processing flag and retry_count, no row is added.
C39_DuplicateEnqueueRefused ==
    /\ [](/\ DOMAIN table \subseteq 1..(next_id - 1)
          /\ Cardinality(DOMAIN table) <= next_id - 1)
    /\ [][/\ \A id \in Ids :
                (pc' = pc /\ next_id' = next_id /\ clock' = clock
                     /\ EnqueueAgain(id)) =>
                    /\ enq_ok'[id] = FALSE
                    /\ table' = table
                    /\ ReadyIds' = ReadyIds
                    /\ InFlightIds' = InFlightIds
          /\ \A f \in FromAddrs, t \in RcptLists, n \in BodySizes :
                (next_id' # next_id /\ ValidateMessage(f, t, n)
                     /\ HandleDATA(f, t, n)) =>
                    /\ enq_ok'[next_id] = TRUE
                    /\ DOMAIN table' = DOMAIN table \cup {next_id}
                    /\ \A i \in DOMAIN table : table'[i] = table[i]]_vars

\* an enqueue was refused for an id whose row is in flight, and the row is still
\* in flight with the retry_count it had; another row is settled as sent
C39_Witness ==
    \E id, other \in DOMAIN table :
        /\ ~enq_ok[id]
        /\ table[id].processing = 1
        /\ table[id].retry_count = 0
        /\ table[other].status = "sent"

\* ------------------------------------- the Redis backend, call by call
\* RedisQueueManager.mark_completed(message_id), called with the one argument
\* the method takes: the first item of smtp_processing with this id is removed
MarkCompletedCall(id) ==
    /\ phase = "up"
    /\ backend = "redis"
    /\ processing' = (IF up THEN RedisMarkCompleted(processing, id) ELSE processing)
    /\ settled' = IF up /\ id \in SeqIds(processing)
                  THEN [settled EXCEPT ![id] = "completed"]
                  ELSE settled
    /\ UNCHANGED <<queue, table>>
    /\ UNCHANGED <<cfg, sender, glob, sess, lim, obs, up, phase, clock, wstate,
                   ingress, delivered, orphans, fresh, crashes, first_deq,
                   first_send>>

\* the Redis deployment, with no retry budget
InitRedis == Init /\ backend = "redis" /\ max_retries = 0

WorkerRedis(w) ==
    \/ Acquire(w)
    \/ RedisDequeue(w)
    \/ \E accepted \in BOOLEAN : SendWithRetry(w, accepted)
    \/ ProcessResult(w)
    \/ ExceptRequeue(w)
    \/ MarkFailedRetry(w)

NextRedis ==
    \/ Ingress
    \/ \E w \in WorkerIds : WorkerRedis(w)
    \/ \E id \in Ids : MarkCompletedCall(id)

SpecRedis == InitRedis /\ [][NextRedis]_vars

\* the list s without its item at place k
Without(s, k) == SubSeq(s, 1, k - 1) \o SubSeq(s, k + 1, Len(s))

\* C40: Redis backend, step by step. A dequeue of a non-empty ready list moves
\* its oldest item (the tail; enqueue pushes at the head) to the head of
\* in_flight and changes nothing else, so |ready| + |in_flight| stays; a dequeue
\* of an empty ready list changes nothing. An enqueue adds exactly one item, at
\* the head of ready, and leaves in_flight as it was. mark_completed(id)
\* removes at most one item of in_flight, one with this id, removes nothing
\* when no item has the id, and leaves ready as it was. No other step changes
\* the two lists.
C40_RedisFrames ==
    [][/\ \A w \in WorkerIds :
             RedisDequeue(w) =>
                 IF queue # << >>
                 THEN /\ queue' = SubSeq(queue, 1, Len(queue) - 1)
                      /\ processing' = <<queue[Len(queue)]>> \o processing
                      /\ Len(queue') + Len(processing') = Len(queue) + Len(processing)
                      /\ msg'[w].id = json_loads(queue[Len(queue)]).id
                 ELSE /\ <<queue, processing>>' = <<queue, processing>>
                      /\ msg'[w] = NoMsg
       /\ (next_id' # next_id \/ \E w \in WorkerIds : ExceptRequeue(w)) =>
              /\ Len(queue') = Len(queue) + 1
              /\ Tail(queue') = queue
              /\ processing' = processing
              /\ json_loads(Head(queue')).id \in
                     {next_id} \cup {msg[w].id : w \in WorkerIds}
       /\ \A id \in Ids :
             (settled' # settled /\ MarkCompletedCall(id)) =>
                 /\ queue' = queue
                 /\ \E k \in 1..Len(processing) :
                        /\ json_loads(processing[k]).id = id
                        /\ processing' = Without(processing, k)
       /\ \A id \in Ids :
             (id \notin SeqIds(processing) /\ pc' = pc /\ next_id' = next_id
                  /\ MarkCompletedCall(id)) =>
                 <<queue, processing>>' = <<queue, processing>>
       /\ Len(queue') > Len(queue) =>
              (next_id' # next_id \/ \E w \in WorkerIds : pc[w] \in {"settle", "except"})
       /\ Len(queue') < Len(queue) => (\E w \in WorkerIds : pc[w] = "dequeue")
       /\ Len(processing') < Len(processing) =>
              (queue' = queue /\ Len(processing') = Len(processing) - 1)]_vars

\* mark_completed(id) removed one of the two in_flight items of an id: the other
\* one is still in flight, and a message waits in ready
C40_Witness ==
    \E id \in Ids :
        /\ settled[id] = "completed"
        /\ id \in SeqIds(processing)
        /\ queue # << >>

====
